---- MODULE Spec2Model ----
(***************************************************************************)
(* Caption extraction of hlscaptionfinder: the segment pipeline            *)
(* (LibcaptionTsParser, src/src/libcaption_compat.rs), the streaming NAL   *)
(* scanner (MpegBitstream, src/src/mpeg_bitstream.rs) and the CEA-608      *)
(* pair decode.  Bytes are naturals 0..255, byte strings are sequences,    *)
(* text is a sequence of Unicode code points.  Positions are 0-based as in *)
(* the source: At(s, i) is s[i], Slice(s, a, b) is s[a..b].                *)
(***************************************************************************)
EXTENDS Integers, Sequences, FiniteSets, TLC

\* ---------------------------------------------------------------- helpers

None == <<>>
Some(x) == <<x>>
IsSome(o) == o # <<>>
Unwrap(o) == o[1]

At(s, i) == s[i + 1]
Slice(s, a, b) == SubSeq(s, a + 1, b)
From(s, a) == SubSeq(s, a + 1, Len(s))

RECURSIVE BitAnd(_, _)
BitAnd(a, b) ==
    IF a = 0 \/ b = 0 THEN 0
    ELSE (a % 2) * (b % 2) + 2 * BitAnd(a \div 2, b \div 2)

RECURSIVE BitOr(_, _)
BitOr(a, b) ==
    IF a = 0 THEN b
    ELSE IF b = 0 THEN a
    ELSE (IF a % 2 = 1 \/ b % 2 = 1 THEN 1 ELSE 0) + 2 * BitOr(a \div 2, b \div 2)

Shl(a, n) == a * (2 ^ n)
Shr(a, n) == a \div (2 ^ n)

RECURSIVE Flatten(_)
Flatten(ss) == IF ss = <<>> THEN <<>> ELSE Head(ss) \o Flatten(Tail(ss))

Repeat(x, n) == [k \in 1..n |-> x]

Min(S) == CHOOSE x \in S : \A y \in S : x <= y

RECURSIVE SeqsUpTo(_, _)
SeqsUpTo(S, n) ==
    IF n = 0 THEN {<<>>}
    ELSE LET prev == SeqsUpTo(S, n - 1)
         IN  prev \cup {Append(s, x) : s \in {p \in prev : Len(p) = n - 1}, x \in S}

\* ------------------------------------------------- libcaption_compat.rs

TS_PACKET_SIZE == 188
STREAM_TYPE_H264 == 27
STREAM_TYPE_H265 == 36

START_CODE_4 == <<0, 0, 0, 1>>
START_CODE_3 == <<0, 0, 1>>

\* find_start_code: the first 4-byte start code anywhere in data, else the
\* first 3-byte one; Some(<<position, start_code_length>>) or None.
lc_find_start_code(data) ==
    LET P4 == {i \in 0..(Len(data) - 4) : Slice(data, i, i + 4) = START_CODE_4}
        P3 == {i \in 0..(Len(data) - 3) : Slice(data, i, i + 3) = START_CODE_3}
    IN  IF Len(data) >= 4 /\ P4 # {} THEN Some(<<Min(P4), 4>>)
        ELSE IF Len(data) >= 3 /\ P3 # {} THEN Some(<<Min(P3), 3>>)
        ELSE None

\* is_cea608_control_code, on the bytes as they are in the triplet.
lc_is_cea608_control_code(data1, data2) ==
    \/ (data1 = 0 /\ data2 = 0)
    \/ (data1 >= 16 /\ data1 <= 31)
    \/ ((data1 >= 16 /\ data1 <= 23) \/ (data1 >= 24 /\ data1 <= 31))
    \/ (data1 = 44 /\ data2 = 44)
    \/ (data1 = 47 /\ data2 = 47)
    \/ (data1 = 64 /\ data2 <= 127)

\* char::is_whitespace on the code points a decoded pair can hold.
IsWhitespace(c) == c \in {9, 10, 11, 12, 13, 32, 133, 160}

RECURSIVE TrimStart(_)
TrimStart(s) ==
    IF s # <<>> /\ IsWhitespace(Head(s)) THEN TrimStart(Tail(s)) ELSE s

RECURSIVE TrimEnd(_)
TrimEnd(s) ==
    IF s # <<>> /\ IsWhitespace(s[Len(s)]) THEN TrimEnd(SubSeq(s, 1, Len(s) - 1)) ELSE s

\* str::trim
Trim(s) == TrimEnd(TrimStart(s))

\* decode_cea608_chars without the test of the first character's range.
lc_decode_cea608_chars_no_range_test(data1, data2) ==
    LET char1 == BitAnd(data1, 127)
        char2 == BitAnd(data2, 127)
        r1 == IF char1 >= 32 /\ char1 <= 127 THEN <<char1>> ELSE <<>>
        r2 == IF char2 >= 32 /\ char2 <= 127 THEN <<char2>> ELSE <<>>
        result == r1 \o r2
    IN  IF Trim(result) \in {<<>>, <<64>>, <<44>>, <<47>>, <<32>>} THEN None
        ELSE Some(result)

\* decode_cea608_chars: Option<String>.
lc_decode_cea608_chars(data1, data2) ==
    LET char1 == BitAnd(data1, 127)
        char2 == BitAnd(data2, 127)
        r1 == IF char1 >= 32 /\ char1 <= 127 THEN <<char1>> ELSE <<>>
        r2 == IF char2 >= 32 /\ char2 <= 127 THEN <<char2>> ELSE <<>>
        result == r1 \o r2
        result_str == Trim(result)
    IN  IF char1 >= 16 /\ char1 <= 31 THEN None
        ELSE IF \/ result_str = <<>>
                \/ result_str = <<64>>
                \/ result_str = <<44>>
                \/ result_str = <<47>>
                \/ result_str = <<32>>
             THEN None
        ELSE Some(result)

\* The triplet loop of parse_cea708_data without the test of cc_type.
RECURSIVE lc_cc_loop_any_cc_type(_, _, _, _)
lc_cc_loop_any_cc_type(data, i, remaining, caption_text) ==
    IF remaining = 0 \/ i + 3 > Len(data) THEN caption_text
    ELSE LET cc_valid == BitAnd(At(data, i), 4) # 0
             cc_data1 == At(data, i + 1)
             cc_data2 == At(data, i + 2)
             text == IF cc_valid /\ ~lc_is_cea608_control_code(cc_data1, cc_data2)
                     THEN lc_decode_cea608_chars(cc_data1, cc_data2)
                     ELSE None
         IN  lc_cc_loop_any_cc_type(data, i + 3, remaining - 1,
                        IF IsSome(text) THEN caption_text \o Unwrap(text)
                        ELSE caption_text)

\* The triplet loop of parse_cea708_data: for _cc_idx in 0..cc_count.
RECURSIVE lc_cc_loop(_, _, _, _)
lc_cc_loop(data, i, remaining, caption_text) ==
    IF remaining = 0 \/ i + 3 > Len(data) THEN caption_text
    ELSE LET cc_valid == BitAnd(At(data, i), 4) # 0
             cc_type == BitAnd(At(data, i), 3)
             cc_data1 == At(data, i + 1)
             cc_data2 == At(data, i + 2)
             text == IF cc_valid /\ cc_type <= 1
                        /\ ~lc_is_cea608_control_code(cc_data1, cc_data2)
                     THEN lc_decode_cea608_chars(cc_data1, cc_data2)
                     ELSE None
         IN  lc_cc_loop(data, i + 3, remaining - 1,
                        IF IsSome(text) THEN caption_text \o Unwrap(text)
                        ELSE caption_text)

\* parse_cea708_data without the comparison of the user_identifier.
lc_parse_cea708_data_any_identifier(data) ==
    IF Len(data) < 8 THEN <<>>
    ELSE IF At(data, 0) # 181 THEN <<>>
    ELSE IF 7 >= Len(data) \/ At(data, 7) # 3 THEN <<>>
    ELSE IF 8 >= Len(data) THEN <<>>
    ELSE LET cc_count == BitAnd(At(data, 8), 31)
             caption_text == lc_cc_loop(data, 10, cc_count, <<>>)
         IN  IF caption_text = <<>> THEN <<>> ELSE <<caption_text>>

\* parse_cea708_data: the captions of one SEI payload (Ok(None) is <<>>,
\* Ok(Some(vec![caption_text])) is <<caption_text>>; it has no Err path).
lc_parse_cea708_data(data) ==
    IF Len(data) < 8 THEN <<>>
    ELSE IF At(data, 0) # 181 THEN <<>>
    ELSE IF 3 + 4 > Len(data) \/ Slice(data, 3, 7) # <<71, 65, 57, 52>> THEN <<>>
    ELSE IF 7 >= Len(data) \/ At(data, 7) # 3 THEN <<>>
    ELSE IF 8 >= Len(data) THEN <<>>
    ELSE LET cc_count == BitAnd(At(data, 8), 31)
             caption_text == lc_cc_loop(data, 10, cc_count, <<>>)
         IN  IF caption_text = <<>> THEN <<>> ELSE <<caption_text>>

\* The 0xFF chain of a payload type or size: <<sum of the 0xFF bytes, next i>>.
RECURSIVE lc_ff_chain(_, _, _)
lc_ff_chain(data, i, acc) ==
    IF i < Len(data) /\ At(data, i) = 255 THEN lc_ff_chain(data, i + 1, acc + 255)
    ELSE <<acc, i>>

\* parse_sei_nalu: the message loop, from position i on.
RECURSIVE lc_sei_loop(_, _, _)
lc_sei_loop(data, i, captions) ==
    IF ~(i + 1 < Len(data)) THEN captions
    ELSE LET t == lc_ff_chain(data, i, 0)
         IN  IF t[2] >= Len(data) THEN captions
             ELSE LET payload_type == t[1] + At(data, t[2])
                      s == lc_ff_chain(data, t[2] + 1, 0)
                  IN  IF s[2] >= Len(data) THEN captions
                      ELSE LET payload_size == s[1] + At(data, s[2])
                               j == s[2] + 1
                               extracted ==
                                   IF payload_type = 4 /\ payload_size > 0
                                      /\ j + payload_size <= Len(data)
                                   THEN lc_parse_cea708_data(Slice(data, j, j + payload_size))
                                   ELSE <<>>
                           IN  lc_sei_loop(data, j + payload_size, captions \o extracted)

lc_parse_sei_nalu(data) == lc_sei_loop(data, 0, <<>>)

\* process_nalu: the captions of one NAL unit.
lc_process_nalu(nalu) ==
    IF nalu = <<>> THEN <<>>
    ELSE IF BitAnd(At(nalu, 0), 31) = 6 THEN lc_parse_sei_nalu(From(nalu, 1))
    ELSE <<>>

\* The NAL loop of process_video_data on the buffer self.data.  drained counts
\* the bytes already removed from the front of the buffer in this call, so
\* that each NAL unit handed to process_nalu is recorded with its place.
RECURSIVE lc_nal_loop(_, _, _, _)
lc_nal_loop(buf, drained, captions, nalus) ==
    LET sc == lc_find_start_code(buf)
    IN  IF ~IsSome(sc) THEN [data |-> buf, captions |-> captions, nalus |-> nalus]
        ELSE LET start_pos == Unwrap(sc)[1]
                 start_code_len == Unwrap(sc)[2]
                 nx == lc_find_start_code(From(buf, start_pos + start_code_len))
             IN  IF IsSome(nx)
                 THEN LET nalu_end == start_pos + start_code_len + Unwrap(nx)[1]
                          nalu_data == Slice(buf, start_pos + start_code_len, nalu_end)
                      IN  lc_nal_loop(From(buf, nalu_end), drained + nalu_end,
                                      captions \o lc_process_nalu(nalu_data),
                                      Append(nalus, [from |-> drained + start_pos + start_code_len,
                                                     to |-> drained + nalu_end,
                                                     data |-> nalu_data]))
                 ELSE LET remaining_size == Len(buf) - start_pos - start_code_len
                          nalu_data == From(buf, start_pos + start_code_len)
                      IN  IF remaining_size > 0
                          THEN [data |-> <<>>,
                                captions |-> captions \o lc_process_nalu(nalu_data),
                                nalus |-> Append(nalus, [from |-> drained + start_pos + start_code_len,
                                                         to |-> drained + Len(buf),
                                                         data |-> nalu_data])]
                          ELSE [data |-> buf, captions |-> captions, nalus |-> nalus]

\* process_video_data(self.data, data): extend the buffer, then the NAL loop.
lc_process_video_data(self_data, data) ==
    lc_nal_loop(self_data \o data, 0, <<>>, <<>>)

\* parse_timestamp
lc_parse_timestamp(data) ==
    IF Len(data) < 5 THEN 0
    ELSE BitOr(BitOr(BitOr(BitOr(
            Shl(BitAnd(At(data, 0), 14), 29),
            Shl(BitAnd(At(data, 1), 255), 22)),
            Shl(BitAnd(At(data, 2), 254), 14)),
            Shl(BitAnd(At(data, 3), 255), 7)),
            Shr(BitAnd(At(data, 4), 254), 1))

\* The descriptor loop of the PMT branch of parse_packet:
\* <<ccpid, stream_type>> after the loop.
RECURSIVE lc_pmt_loop(_, _, _, _, _)
lc_pmt_loop(packet, i, descriptor_loop_length, ccpid, stream_type) ==
    IF ~(descriptor_loop_length >= 5 /\ i + 5 <= Len(packet)) THEN <<ccpid, stream_type>>
    ELSE LET st == At(packet, i)
             elementary_pid == BitOr(Shl(BitAnd(At(packet, i + 1), 31), 8), At(packet, i + 2))
             esinfo_length == BitOr(Shl(BitAnd(At(packet, i + 3), 15), 8), At(packet, i + 4))
             hit == st = STREAM_TYPE_H264 \/ st = STREAM_TYPE_H265
         IN  lc_pmt_loop(packet, i + 5 + esinfo_length,
                         descriptor_loop_length - (5 + esinfo_length),
                         IF hit THEN Some(elementary_pid) ELSE ccpid,
                         IF hit THEN Some(st) ELSE stream_type)

\* parse_packet(self, packet): the parser's fields after the call and the
\* value returned (out: None, or Some(the video payload)).
lc_parse_packet(self, packet) ==
    LET pusi == BitAnd(At(packet, 1), 64) # 0
        pid == BitOr(Shl(BitAnd(At(packet, 1), 31), 8), At(packet, 2))
        adaptation_present == BitAnd(At(packet, 3), 32) # 0
        payload_present == BitAnd(At(packet, 3), 16) # 0
        i0 == IF adaptation_present THEN 4 + 1 + At(packet, 4) ELSE 4
        same == [pmtpid |-> self.pmtpid, ccpid |-> self.ccpid,
                 stream_type |-> self.stream_type, pts |-> self.pts,
                 dts |-> self.dts, out |-> None]
    IN  IF pid = 0 /\ payload_present /\ i0 < Len(packet)
        THEN \* PAT
             LET i == i0 + At(packet, i0) + 1
             IN  IF i + 12 <= Len(packet)
                 THEN [same EXCEPT !.pmtpid =
                          Some(BitOr(Shl(BitAnd(At(packet, i + 10), 31), 8), At(packet, i + 11)))]
                 ELSE same
        ELSE IF IsSome(self.pmtpid) /\ pid = Unwrap(self.pmtpid)
                /\ payload_present /\ i0 < Len(packet)
        THEN \* PMT
             LET i == i0 + At(packet, i0) + 1
             IN  IF i + 12 <= Len(packet)
                 THEN LET section_length ==
                              BitOr(Shl(BitAnd(At(packet, i + 1), 15), 8), At(packet, i + 2))
                          current == BitAnd(At(packet, i + 5), 1) # 0
                          program_info_length ==
                              BitOr(Shl(BitAnd(At(packet, i + 10), 15), 8), At(packet, i + 11))
                          descriptor_loop_length ==
                              section_length - (9 + program_info_length + 4)
                          r == lc_pmt_loop(packet, i + 12 + program_info_length,
                                           descriptor_loop_length, self.ccpid, self.stream_type)
                      IN  IF current
                          THEN [same EXCEPT !.ccpid = r[1], !.stream_type = r[2]]
                          ELSE same
                 ELSE same
        ELSE IF IsSome(self.ccpid) /\ payload_present /\ pid = Unwrap(self.ccpid)
        THEN \* video stream payload
             LET pes == pusi /\ i0 + 9 <= Len(packet)
                 has_pts == pes /\ BitAnd(At(packet, i0 + 7), 128) # 0
                 has_dts == pes /\ BitAnd(At(packet, i0 + 7), 64) # 0
                 header_length == IF pes THEN At(packet, i0 + 8) ELSE 0
                 set_ts == has_pts /\ i0 + 14 <= Len(packet)
                 pts == IF set_ts THEN Some(lc_parse_timestamp(From(packet, i0 + 9)))
                        ELSE self.pts
                 dts == IF set_ts
                        THEN IF has_dts /\ i0 + 19 <= Len(packet)
                             THEN Some(lc_parse_timestamp(From(packet, i0 + 14)))
                             ELSE pts
                        ELSE self.dts
                 i == IF pes THEN i0 + 9 + header_length ELSE i0
             IN  [same EXCEPT !.pts = pts, !.dts = dts,
                              !.out = IF i < Len(packet) THEN Some(From(packet, i)) ELSE None]
        ELSE same

\* A byte of the packet, 0 where the code would index past its end (the
\* index is then in the set of reads below, which is what is checked).
ByteAt(packet, k) == IF k < Len(packet) THEN At(packet, k) ELSE 0

\* The indices the descriptor loop of the PMT branch reads.
RECURSIVE lc_pmt_loop_reads(_, _, _)
lc_pmt_loop_reads(packet, i, descriptor_loop_length) ==
    IF ~(descriptor_loop_length >= 5 /\ i + 5 <= Len(packet)) THEN {}
    ELSE LET esinfo_length ==
                 BitOr(Shl(BitAnd(ByteAt(packet, i + 3), 15), 8), ByteAt(packet, i + 4))
         IN  (i..(i + 4)) \cup lc_pmt_loop_reads(packet, i + 5 + esinfo_length,
                                   descriptor_loop_length - (5 + esinfo_length))

\* LibcaptionTsParser::parse_packet(self, packet): the indices of packet it
\* reads, branch by branch (a slice &packet[a..] counts from a on).
lc_packet_reads(self, packet) ==
    LET pusi == BitAnd(ByteAt(packet, 1), 64) # 0
        pid == BitOr(Shl(BitAnd(ByteAt(packet, 1), 31), 8), ByteAt(packet, 2))
        adaptation_present == BitAnd(ByteAt(packet, 3), 32) # 0
        payload_present == BitAnd(ByteAt(packet, 3), 16) # 0
        i0 == IF adaptation_present THEN 4 + 1 + ByteAt(packet, 4) ELSE 4
        head == {1, 2, 3} \cup (IF adaptation_present THEN {4} ELSE {})
        i == i0 + ByteAt(packet, i0) + 1
    IN  IF pid = 0 /\ payload_present /\ i0 < Len(packet)
        THEN head \cup {i0}
                  \cup (IF i + 12 <= Len(packet) THEN {i + 10, i + 11} ELSE {})
        ELSE IF IsSome(self.pmtpid) /\ pid = Unwrap(self.pmtpid)
                /\ payload_present /\ i0 < Len(packet)
        THEN head \cup {i0}
                  \cup (IF i + 12 <= Len(packet)
                        THEN LET section_length ==
                                     BitOr(Shl(BitAnd(ByteAt(packet, i + 1), 15), 8),
                                           ByteAt(packet, i + 2))
                                 current == BitAnd(ByteAt(packet, i + 5), 1) # 0
                                 program_info_length ==
                                     BitOr(Shl(BitAnd(ByteAt(packet, i + 10), 15), 8),
                                           ByteAt(packet, i + 11))
                             IN  {i + 1, i + 2, i + 5, i + 10, i + 11}
                                     \cup (IF current
                                           THEN lc_pmt_loop_reads(packet,
                                                    i + 12 + program_info_length,
                                                    section_length - (9 + program_info_length + 4))
                                           ELSE {})
                        ELSE {})
        ELSE IF IsSome(self.ccpid) /\ payload_present /\ pid = Unwrap(self.ccpid)
        THEN LET pes == pusi /\ i0 + 9 <= Len(packet)
                 has_pts == pes /\ BitAnd(ByteAt(packet, i0 + 7), 128) # 0
                 has_dts == pes /\ BitAnd(ByteAt(packet, i0 + 7), 64) # 0
                 j == IF pes THEN i0 + 9 + ByteAt(packet, i0 + 8) ELSE i0
             IN  head \cup (IF pes THEN {i0 + 7, i0 + 8} ELSE {})
                      \cup (IF has_pts /\ i0 + 14 <= Len(packet)
                            THEN (i0 + 9)..(i0 + 13) ELSE {})
                      \cup (IF has_pts /\ i0 + 14 <= Len(packet)
                               /\ has_dts /\ i0 + 19 <= Len(packet)
                            THEN (i0 + 14)..(i0 + 18) ELSE {})
                      \cup (IF j < Len(packet) THEN j..(Len(packet) - 1) ELSE {})
        ELSE head

\* ----------------------------------------------------------- mpeg_ts.rs

TS_SYNC_BYTE == 71

\* A TsParser that starts with a video PID (0x0101) it was never told.
ts_new_with_video_pid ==
    [pmtpid |-> None, ccpid |-> Some(257), stream_type |-> None,
     pts |-> None, dts |-> None]

\* TsParser::new (Default)
ts_new == [pmtpid |-> None, ccpid |-> None, stream_type |-> None,
           pts |-> None, dts |-> None]

\* TsParser::parse_timestamp
ts_parse_timestamp(data) ==
    IF Len(data) < 5 THEN 0
    ELSE BitOr(BitOr(BitOr(BitOr(
            Shl(BitAnd(At(data, 0), 14), 29),
            Shl(BitAnd(At(data, 1), 255), 22)),
            Shl(BitAnd(At(data, 2), 254), 14)),
            Shl(BitAnd(At(data, 3), 255), 7)),
            Shr(BitAnd(At(data, 4), 254), 1))

\* The descriptor loop of the PMT branch of TsParser::parse_packet:
\* <<ccpid, stream_type>> after the loop.
RECURSIVE ts_pmt_loop(_, _, _, _, _)
ts_pmt_loop(packet, i, descriptor_loop_length, ccpid, stream_type) ==
    IF ~(descriptor_loop_length >= 5 /\ i + 5 <= Len(packet)) THEN <<ccpid, stream_type>>
    ELSE LET st == At(packet, i)
             elementary_pid == BitOr(Shl(BitAnd(At(packet, i + 1), 31), 8), At(packet, i + 2))
             esinfo_length == BitOr(Shl(BitAnd(At(packet, i + 3), 15), 8), At(packet, i + 4))
             hit == st = STREAM_TYPE_H264 \/ st = STREAM_TYPE_H265
         IN  ts_pmt_loop(packet, i + 5 + esinfo_length,
                         descriptor_loop_length - (5 + esinfo_length),
                         IF hit THEN Some(elementary_pid) ELSE ccpid,
                         IF hit THEN Some(st) ELSE stream_type)

\* TsParser::parse_packet(self, packet): the parser's fields after the call
\* and the value returned (result: None for TsParseResult::Ok, Some of a
\* record for Ready; dts and cts are kept as the 90 kHz tick counts that the
\* code divides by 90000.0).
ts_parse_packet(self, packet) ==
    LET same == [pmtpid |-> self.pmtpid, ccpid |-> self.ccpid,
                 stream_type |-> self.stream_type, pts |-> self.pts,
                 dts |-> self.dts, result |-> None]
    IN  IF Len(packet) # TS_PACKET_SIZE THEN same
        ELSE IF At(packet, 0) # TS_SYNC_BYTE THEN same
        ELSE
        LET pusi == BitAnd(At(packet, 1), 64) # 0
            pid == BitOr(Shl(BitAnd(At(packet, 1), 31), 8), At(packet, 2))
            adaptation_present == BitAnd(At(packet, 3), 32) # 0
            payload_present == BitAnd(At(packet, 3), 16) # 0
            i0 == IF adaptation_present THEN 4 + 1 + At(packet, 4) ELSE 4
        IN  IF pid = 0
            THEN \* PAT
                 IF payload_present /\ i0 < Len(packet)
                 THEN LET i == i0 + At(packet, i0) + 1
                      IN  IF i + 12 <= Len(packet)
                          THEN [same EXCEPT !.pmtpid =
                                   Some(BitOr(Shl(BitAnd(At(packet, i + 10), 31), 8),
                                              At(packet, i + 11)))]
                          ELSE same
                 ELSE same
            ELSE IF IsSome(self.pmtpid) /\ pid = Unwrap(self.pmtpid)
            THEN \* PMT
                 IF payload_present /\ i0 < Len(packet)
                 THEN LET i == i0 + At(packet, i0) + 1
                      IN  IF i + 12 <= Len(packet)
                          THEN LET section_length ==
                                       BitOr(Shl(BitAnd(At(packet, i + 1), 15), 8),
                                             At(packet, i + 2))
                                   current == BitAnd(At(packet, i + 5), 1) # 0
                                   program_info_length ==
                                       BitOr(Shl(BitAnd(At(packet, i + 10), 15), 8),
                                             At(packet, i + 11))
                                   descriptor_loop_length ==
                                       section_length - (9 + program_info_length + 4)
                                   r == ts_pmt_loop(packet, i + 12 + program_info_length,
                                            descriptor_loop_length, self.ccpid,
                                            self.stream_type)
                               IN  IF current
                                   THEN [same EXCEPT !.ccpid = r[1], !.stream_type = r[2]]
                                   ELSE same
                          ELSE same
                 ELSE same
            ELSE IF IsSome(self.ccpid) /\ payload_present /\ pid = Unwrap(self.ccpid)
            THEN \* video stream payload
                 LET pes == pusi /\ i0 + 9 <= Len(packet)
                     has_pts == pes /\ BitAnd(At(packet, i0 + 7), 128) # 0
                     has_dts == pes /\ BitAnd(At(packet, i0 + 7), 64) # 0
                     header_length == IF pes THEN At(packet, i0 + 8) ELSE 0
                     set_ts == has_pts /\ i0 + 14 <= Len(packet)
                     pts == IF set_ts THEN Some(ts_parse_timestamp(From(packet, i0 + 9)))
                            ELSE self.pts
                     dts == IF set_ts
                            THEN IF has_dts /\ i0 + 19 <= Len(packet)
                                 THEN Some(ts_parse_timestamp(From(packet, i0 + 14)))
                                 ELSE pts
                            ELSE self.dts
                     i == IF pes THEN i0 + 9 + header_length ELSE i0
                     dts0 == IF IsSome(dts) THEN Unwrap(dts) ELSE 0
                     pts0 == IF IsSome(pts) THEN Unwrap(pts) ELSE 0
                 IN  [same EXCEPT !.pts = pts, !.dts = dts,
                                  !.result = IF i < Len(packet)
                                             THEN Some([data |-> From(packet, i),
                                                        dts |-> dts0,
                                                        cts |-> pts0 - dts0])
                                             ELSE None]
            ELSE same

\* The indices the descriptor loop of TsParser::parse_packet reads.
RECURSIVE ts_pmt_loop_reads(_, _, _)
ts_pmt_loop_reads(packet, i, descriptor_loop_length) ==
    IF ~(descriptor_loop_length >= 5 /\ i + 5 <= Len(packet)) THEN {}
    ELSE LET esinfo_length ==
                 BitOr(Shl(BitAnd(ByteAt(packet, i + 3), 15), 8), ByteAt(packet, i + 4))
         IN  (i..(i + 4)) \cup ts_pmt_loop_reads(packet, i + 5 + esinfo_length,
                                   descriptor_loop_length - (5 + esinfo_length))

\* TsParser::parse_packet without the test i < packet.len() before the
\* pointer field of a PAT is read.
ts_packet_reads_pointer_unchecked(self, packet) ==
    LET pid == BitOr(Shl(BitAnd(ByteAt(packet, 1), 31), 8), ByteAt(packet, 2))
        adaptation_present == BitAnd(ByteAt(packet, 3), 32) # 0
        payload_present == BitAnd(ByteAt(packet, 3), 16) # 0
        i0 == IF adaptation_present THEN 4 + 1 + ByteAt(packet, 4) ELSE 4
        i == i0 + ByteAt(packet, i0) + 1
    IN  IF Len(packet) # TS_PACKET_SIZE THEN {}
        ELSE IF pid = 0 /\ payload_present
        THEN {0, 1, 2, 3, i0} \cup (IF i + 12 <= Len(packet) THEN {i + 10, i + 11} ELSE {})
        ELSE {0, 1, 2, 3}

\* TsParser::parse_packet(self, packet): the indices of packet it reads,
\* branch by branch (a slice &packet[a..] counts from a on).
ts_packet_reads(self, packet) ==
    IF Len(packet) # TS_PACKET_SIZE THEN {}
    ELSE IF At(packet, 0) # TS_SYNC_BYTE THEN {0}
    ELSE
    LET pusi == BitAnd(ByteAt(packet, 1), 64) # 0
        pid == BitOr(Shl(BitAnd(ByteAt(packet, 1), 31), 8), ByteAt(packet, 2))
        adaptation_present == BitAnd(ByteAt(packet, 3), 32) # 0
        payload_present == BitAnd(ByteAt(packet, 3), 16) # 0
        i0 == IF adaptation_present THEN 4 + 1 + ByteAt(packet, 4) ELSE 4
        head == {0, 1, 2, 3} \cup (IF adaptation_present THEN {4} ELSE {})
        i == i0 + ByteAt(packet, i0) + 1
    IN  IF pid = 0
        THEN IF payload_present /\ i0 < Len(packet)
             THEN head \cup {i0}
                       \cup (IF i + 12 <= Len(packet) THEN {i + 10, i + 11} ELSE {})
             ELSE head
        ELSE IF IsSome(self.pmtpid) /\ pid = Unwrap(self.pmtpid)
        THEN IF payload_present /\ i0 < Len(packet)
             THEN head \cup {i0}
                  \cup (IF i + 12 <= Len(packet)
                        THEN LET section_length ==
                                     BitOr(Shl(BitAnd(ByteAt(packet, i + 1), 15), 8),
                                           ByteAt(packet, i + 2))
                                 current == BitAnd(ByteAt(packet, i + 5), 1) # 0
                                 program_info_length ==
                                     BitOr(Shl(BitAnd(ByteAt(packet, i + 10), 15), 8),
                                           ByteAt(packet, i + 11))
                             IN  {i + 1, i + 2, i + 5, i + 10, i + 11}
                                     \cup (IF current
                                           THEN ts_pmt_loop_reads(packet,
                                                    i + 12 + program_info_length,
                                                    section_length - (9 + program_info_length + 4))
                                           ELSE {})
                        ELSE {})
             ELSE head
        ELSE IF IsSome(self.ccpid) /\ payload_present /\ pid = Unwrap(self.ccpid)
        THEN LET pes == pusi /\ i0 + 9 <= Len(packet)
                 has_pts == pes /\ BitAnd(ByteAt(packet, i0 + 7), 128) # 0
                 has_dts == pes /\ BitAnd(ByteAt(packet, i0 + 7), 64) # 0
                 j == IF pes THEN i0 + 9 + ByteAt(packet, i0 + 8) ELSE i0
             IN  head \cup (IF pes THEN {i0 + 7, i0 + 8} ELSE {})
                      \cup (IF has_pts /\ i0 + 14 <= Len(packet)
                            THEN (i0 + 9)..(i0 + 13) ELSE {})
                      \cup (IF has_pts /\ i0 + 14 <= Len(packet)
                               /\ has_dts /\ i0 + 19 <= Len(packet)
                            THEN (i0 + 14)..(i0 + 18) ELSE {})
                      \cup (IF j < Len(packet) THEN j..(Len(packet) - 1) ELSE {})
        ELSE head

\* --------------------------------------------------------- cea608.rs

\* Cea608Decoder::decode_special_character: the 16-entry table.
cea608_decode_special_character(data2) ==
    CASE data2 = 48 -> Some(174)
      [] data2 = 49 -> Some(176)
      [] data2 = 50 -> Some(189)
      [] data2 = 51 -> Some(191)
      [] data2 = 52 -> Some(8482)
      [] data2 = 53 -> Some(162)
      [] data2 = 54 -> Some(163)
      [] data2 = 55 -> Some(9834)
      [] data2 = 56 -> Some(224)
      [] data2 = 57 -> Some(32)
      [] data2 = 58 -> Some(232)
      [] data2 = 59 -> Some(226)
      [] data2 = 60 -> Some(234)
      [] data2 = 61 -> Some(238)
      [] data2 = 62 -> Some(244)
      [] data2 = 63 -> Some(251)
      [] OTHER -> None

\* Cea608Decoder::decode_extended_character: the 64-entry table.
cea608_decode_extended_character(data1, data2) ==
    CASE data1 = 18 /\ data2 = 32 -> Some(193)
      [] data1 = 18 /\ data2 = 33 -> Some(201)
      [] data1 = 18 /\ data2 = 34 -> Some(211)
      [] data1 = 18 /\ data2 = 35 -> Some(218)
      [] data1 = 18 /\ data2 = 36 -> Some(220)
      [] data1 = 18 /\ data2 = 37 -> Some(252)
      [] data1 = 18 /\ data2 = 38 -> Some(180)
      [] data1 = 18 /\ data2 = 39 -> Some(161)
      [] data1 = 18 /\ data2 = 40 -> Some(42)
      [] data1 = 18 /\ data2 = 41 -> Some(39)
      [] data1 = 18 /\ data2 = 42 -> Some(8212)
      [] data1 = 18 /\ data2 = 43 -> Some(169)
      [] data1 = 18 /\ data2 = 44 -> Some(8480)
      [] data1 = 18 /\ data2 = 45 -> Some(8226)
      [] data1 = 18 /\ data2 = 46 -> Some(34)
      [] data1 = 18 /\ data2 = 47 -> Some(34)
      [] data1 = 18 /\ data2 = 48 -> Some(192)
      [] data1 = 18 /\ data2 = 49 -> Some(194)
      [] data1 = 18 /\ data2 = 50 -> Some(199)
      [] data1 = 18 /\ data2 = 51 -> Some(200)
      [] data1 = 18 /\ data2 = 52 -> Some(202)
      [] data1 = 18 /\ data2 = 53 -> Some(203)
      [] data1 = 18 /\ data2 = 54 -> Some(235)
      [] data1 = 18 /\ data2 = 55 -> Some(206)
      [] data1 = 18 /\ data2 = 56 -> Some(207)
      [] data1 = 18 /\ data2 = 57 -> Some(239)
      [] data1 = 18 /\ data2 = 58 -> Some(212)
      [] data1 = 18 /\ data2 = 59 -> Some(217)
      [] data1 = 18 /\ data2 = 60 -> Some(249)
      [] data1 = 18 /\ data2 = 61 -> Some(219)
      [] data1 = 18 /\ data2 = 62 -> Some(171)
      [] data1 = 18 /\ data2 = 63 -> Some(187)
      [] data1 = 19 /\ data2 = 32 -> Some(195)
      [] data1 = 19 /\ data2 = 33 -> Some(227)
      [] data1 = 19 /\ data2 = 34 -> Some(205)
      [] data1 = 19 /\ data2 = 35 -> Some(204)
      [] data1 = 19 /\ data2 = 36 -> Some(236)
      [] data1 = 19 /\ data2 = 37 -> Some(210)
      [] data1 = 19 /\ data2 = 38 -> Some(242)
      [] data1 = 19 /\ data2 = 39 -> Some(213)
      [] data1 = 19 /\ data2 = 40 -> Some(245)
      [] data1 = 19 /\ data2 = 41 -> Some(123)
      [] data1 = 19 /\ data2 = 42 -> Some(125)
      [] data1 = 19 /\ data2 = 43 -> Some(92)
      [] data1 = 19 /\ data2 = 44 -> Some(94)
      [] data1 = 19 /\ data2 = 45 -> Some(95)
      [] data1 = 19 /\ data2 = 46 -> Some(124)
      [] data1 = 19 /\ data2 = 47 -> Some(126)
      [] data1 = 19 /\ data2 = 48 -> Some(196)
      [] data1 = 19 /\ data2 = 49 -> Some(228)
      [] data1 = 19 /\ data2 = 50 -> Some(214)
      [] data1 = 19 /\ data2 = 51 -> Some(246)
      [] data1 = 19 /\ data2 = 52 -> Some(223)
      [] data1 = 19 /\ data2 = 53 -> Some(165)
      [] data1 = 19 /\ data2 = 54 -> Some(164)
      [] data1 = 19 /\ data2 = 55 -> Some(166)
      [] data1 = 19 /\ data2 = 56 -> Some(197)
      [] data1 = 19 /\ data2 = 57 -> Some(229)
      [] data1 = 19 /\ data2 = 58 -> Some(216)
      [] data1 = 19 /\ data2 = 59 -> Some(248)
      [] data1 = 19 /\ data2 = 60 -> Some(9484)
      [] data1 = 19 /\ data2 = 61 -> Some(9488)
      [] data1 = 19 /\ data2 = 62 -> Some(9492)
      [] data1 = 19 /\ data2 = 63 -> Some(9496)
      [] OTHER -> None

cea608_is_printable_basic(byte) == byte >= 32 /\ byte <= 127

cea608_is_special_character(data1, data2) ==
    data1 = 17 /\ data2 >= 48 /\ data2 <= 63

cea608_is_extended_character(data1, data2) ==
    (data1 = 18 \/ data1 = 19) /\ data2 >= 32 /\ data2 <= 63

\* Cea608Decoder::decode_cea608_pair: Option<String>.
cea608_decode_cea608_pair(data1, data2) ==
    LET first ==
            IF cea608_is_printable_basic(data1) THEN <<data1>>
            ELSE IF cea608_is_special_character(data1, data2)
            THEN cea608_decode_special_character(data2)
            ELSE IF cea608_is_extended_character(data1, data2)
            THEN cea608_decode_extended_character(data1, data2)
            ELSE <<>>
        second ==
            IF cea608_is_printable_basic(data2) /\ data1 >= 32 THEN <<data2>> ELSE <<>>
        result == first \o second
    IN  IF result = <<>> THEN None ELSE Some(result)

\* Cea608Decoder::decode_caption_data: one string per entry that decodes.
RECURSIVE cea608_decode_caption_data(_)
cea608_decode_caption_data(caption_data) ==
    IF caption_data = <<>> THEN <<>>
    ELSE LET d == Head(caption_data)
             text == IF d.cc_valid /\ d.cc_type <= 1
                     THEN cea608_decode_cea608_pair(d.cc_data[1], d.cc_data[2])
                     ELSE None
         IN  (IF IsSome(text) THEN <<Unwrap(text)>> ELSE <<>>)
                 \o cea608_decode_caption_data(Tail(caption_data))

\* --------------------------------------------------------- cea708.rs

T35_COUNTRY_CODE_US == 181
ATSC_IDENTIFIER == <<71, 65, 57, 52>>
USER_DATA_TYPE_CODE == 3

CaptionData(cc_valid, cc_type, b1, b2) ==
    [cc_valid |-> cc_valid, cc_type |-> cc_type, cc_data |-> <<b1, b2>>]

\* The for loop of parse_user_data: for cc_index in 0..cc_count.
RECURSIVE cea708_cc_loop(_, _, _, _)
cea708_cc_loop(data, i, remaining, captions) ==
    IF remaining = 0 \/ i + 3 > Len(data) THEN captions
    ELSE LET cc_valid == BitAnd(At(data, i), 4) # 0
             cc_type == BitAnd(At(data, i), 3)
         IN  cea708_cc_loop(data, i + 3, remaining - 1,
                 IF cc_valid
                 THEN Append(captions,
                             CaptionData(cc_valid, cc_type, At(data, i + 1), At(data, i + 2)))
                 ELSE captions)

\* Cea708Parser::parse_user_data: the Vec<CaptionData> (it has no Err path).
\* i is 1 after the country code and is not moved past the provider code.
cea708_parse_user_data(data) ==
    IF Len(data) < 8 THEN <<>>
    ELSE IF At(data, 0) # T35_COUNTRY_CODE_US THEN <<>>
    ELSE IF 1 + 6 > Len(data) THEN <<>>
    ELSE IF Slice(data, 1, 5) # ATSC_IDENTIFIER THEN <<>>
    ELSE IF At(data, 5) # USER_DATA_TYPE_CODE THEN <<>>
    ELSE IF 6 >= Len(data) THEN <<>>
    ELSE LET process_cc_data_flag == BitAnd(At(data, 6), 64) # 0
             cc_count == BitAnd(At(data, 6), 31)
         IN  IF ~process_cc_data_flag THEN <<>>
             ELSE IF 7 >= Len(data) THEN <<>>
             ELSE cea708_cc_loop(data, 8, cc_count, <<>>)

\* --------------------------------------------------- mpeg_bitstream.rs

MAX_NALU_SIZE == 6 * 1024 * 1024
H264_SEI_PACKET == 6
H265_SEI_PACKET == 39

\* find_start_code: for i in 0..data.len().saturating_sub(4), then
\* for i in 0..data.len().saturating_sub(3); the position only.
mb_find_start_code(data) ==
    LET n4 == IF Len(data) >= 4 THEN Len(data) - 4 ELSE 0
        n3 == IF Len(data) >= 3 THEN Len(data) - 3 ELSE 0
        P4 == {k \in 0..(n4 - 1) : Slice(data, k, k + 4) = START_CODE_4}
        P3 == {k \in 0..(n3 - 1) : Slice(data, k, k + 3) = START_CODE_3}
    IN  IF P4 # {} THEN Some(Min(P4))
        ELSE IF P3 # {} THEN Some(Min(P3))
        ELSE None

\* remove_emulation_prevention_bytes pushing one 00 for a 00 00 03.
RECURSIVE mb_remove_emulation_prevention_bytes_one_zero(_)
mb_remove_emulation_prevention_bytes_one_zero(d) ==
    IF d = <<>> THEN <<>>
    ELSE IF 2 < Len(d) /\ d[1] = 0 /\ d[2] = 0 /\ d[3] = 3
    THEN <<0>> \o mb_remove_emulation_prevention_bytes_one_zero(From(d, 3))
    ELSE <<d[1]>> \o mb_remove_emulation_prevention_bytes_one_zero(Tail(d))

\* remove_emulation_prevention_bytes
RECURSIVE mb_remove_emulation_prevention_bytes(_)
mb_remove_emulation_prevention_bytes(d) ==
    IF d = <<>> THEN <<>>
    ELSE IF 2 < Len(d) /\ d[1] = 0 /\ d[2] = 0 /\ d[3] = 3
    THEN <<0, 0>> \o mb_remove_emulation_prevention_bytes(From(d, 3))
    ELSE <<d[1]>> \o mb_remove_emulation_prevention_bytes(Tail(d))

\* parse_sei: the message loop from position k on; it ends at the first
\* message whose payload_size is 0 or passes the end of the data.
RECURSIVE mb_sei_loop(_, _, _, _)
mb_sei_loop(d, k, timestamp, messages) ==
    IF ~(k + 1 < Len(d)) THEN messages
    ELSE LET t == lc_ff_chain(d, k, 0)
         IN  IF t[2] >= Len(d) THEN messages
             ELSE LET payload_type == t[1] + At(d, t[2])
                      z == lc_ff_chain(d, t[2] + 1, 0)
                  IN  IF z[2] >= Len(d) THEN messages
                      ELSE LET payload_size == z[1] + At(d, z[2])
                               j == z[2] + 1
                           IN  IF payload_size > 0 /\ j + payload_size <= Len(d)
                               THEN mb_sei_loop(d, j + payload_size, timestamp,
                                        Append(messages,
                                            [payload_type |-> payload_type,
                                             data |-> mb_remove_emulation_prevention_bytes(
                                                          Slice(d, j, j + payload_size)),
                                             timestamp |-> timestamp]))
                               ELSE messages

mb_parse_sei(d, timestamp) == mb_sei_loop(d, 0, timestamp, <<>>)

\* process_nalu: the SEI messages of one NAL unit (Ok(None) is <<>>).
mb_process_nalu(stream_type, nalu, timestamp) ==
    IF nalu = <<>> THEN <<>>
    ELSE LET nalu_type == BitAnd(At(nalu, 0), 31)
             is_sei == IF stream_type = Some(STREAM_TYPE_H264) THEN nalu_type = H264_SEI_PACKET
                       ELSE IF stream_type = Some(STREAM_TYPE_H265) THEN nalu_type = H265_SEI_PACKET
                       ELSE FALSE
         IN  IF is_sei THEN mb_parse_sei(From(nalu, 1), timestamp) ELSE <<>>

\* The NAL loop of parse: while a start code and a next one are found.
RECURSIVE mb_nal_loop(_, _, _, _)
mb_nal_loop(buffer, stream_type, timestamp, sei_messages) ==
    LET sc == mb_find_start_code(buffer)
    IN  IF ~IsSome(sc) THEN [buffer |-> buffer, sei_messages |-> sei_messages]
        ELSE LET start_pos == Unwrap(sc)
                 nx == mb_find_start_code(From(buffer, start_pos + 4))
             IN  IF ~IsSome(nx) THEN [buffer |-> buffer, sei_messages |-> sei_messages]
                 ELSE LET nalu_end == start_pos + 4 + Unwrap(nx)
                          nalu_data == Slice(buffer, start_pos + 4, nalu_end)
                      IN  mb_nal_loop(From(buffer, nalu_end), stream_type, timestamp,
                                      sei_messages \o mb_process_nalu(stream_type, nalu_data, timestamp))

\* The buffer of parse before the NAL loop: cleared when the new length
\* would pass MAX_NALU_SIZE, then extended by the data.
mb_extend(buffer, d) ==
    (IF Len(buffer) + Len(d) > MAX_NALU_SIZE THEN <<>> ELSE buffer) \o d

\* parse(self, data, dts, cts): the buffer after the call and the messages
\* returned.
mb_parse(self, d, dts, cts) ==
    mb_nal_loop(mb_extend(self.buffer, d), self.stream_type, dts + cts, <<>>)

\* The NAL loop of parse again, for the places of the NAL units it hands to
\* process_nalu: offset is the place in the stream of the first byte of the
\* buffer, a NAL unit is [from, to) in the stream.
RECURSIVE mb_nal_loop_handed(_, _, _)
mb_nal_loop_handed(buffer, offset, handed) ==
    LET sc == mb_find_start_code(buffer)
    IN  IF ~IsSome(sc) THEN handed
        ELSE LET start_pos == Unwrap(sc)
                 nx == mb_find_start_code(From(buffer, start_pos + 4))
             IN  IF ~IsSome(nx) THEN handed
                 ELSE LET nalu_end == start_pos + 4 + Unwrap(nx)
                      IN  mb_nal_loop_handed(From(buffer, nalu_end), offset + nalu_end,
                              Append(handed, [from |-> offset + start_pos + 4,
                                              to |-> offset + nalu_end]))

\* flush(self): the buffer after the call and the messages returned.
mb_flush(self) ==
    LET sc == mb_find_start_code(self.buffer)
    IN  [buffer |-> <<>>,
         sei_messages |->
             IF IsSome(sc)
             THEN mb_process_nalu(self.stream_type, From(self.buffer, Unwrap(sc) + 4), 0)
             ELSE <<>>]

\* The place of the NAL unit flush hands to process_nalu, if any.
mb_flush_handed(self, offset) ==
    LET sc == mb_find_start_code(self.buffer)
    IN  IF IsSome(sc)
        THEN <<[from |-> offset + Unwrap(sc) + 4, to |-> offset + Len(self.buffer)]>>
        ELSE <<>>

\* MpegBitstream::new
mb_new == [buffer |-> <<>>, stream_type |-> None]

\* The length of the buffer of parse before the NAL loop, for a buffer of
\* buffer_len bytes and data of data_len bytes.
mb_extend_len(buffer_len, data_len) ==
    (IF buffer_len + data_len > MAX_NALU_SIZE THEN 0 ELSE buffer_len) + data_len

\* ------------------------------------------------------ segment inputs

\* A TS packet: the head bytes, then 0xFF up to TS_PACKET_SIZE.
Pad(head) == head \o Repeat(255, TS_PACKET_SIZE - Len(head))

\* A PAT on PID 0 whose program entry names the PMT PID 0x0100.
PatPacket ==
    Pad(<<71, 64, 0, 16, 0,
          0, 176, 13, 0, 1, 193, 0, 0, 0, 1, 225, 0, 1, 2, 3, 4>>)

\* A PMT on PID 0x0100 listing one stream: H.264 on PID 0x0101.
PmtPacket ==
    Pad(<<71, 65, 0, 16, 0,
          2, 176, 18, 0, 1, 193, 0, 0, 225, 1, 240, 0,
          STREAM_TYPE_H264, 225, 1, 240, 0, 1, 2, 3, 4>>)

\* A PES header with a PTS (9 fixed bytes, header_length 5).
PesHeader == <<0, 0, 1, 224, 0, 0, 128, 128, 5, 33, 0, 1, 0, 1>>

\* A packet on PID 0x0101 whose payload, after an adaptation field of
\* stuffing and (with pusi) the PES header, is exactly es.
VideoPacket(pusi, es) ==
    LET body == (IF pusi THEN PesHeader ELSE <<>>) \o es
    IN  <<71, (IF pusi THEN 64 ELSE 0) + 1, 1, 48, 183 - Len(body)>>
            \o Repeat(255, 183 - Len(body)) \o body

\* cc_data triplet: marker bits, cc_valid, cc_type, then the pair.
Trip(cc_valid, cc_type, b1, b2) ==
    <<248 + (IF cc_valid THEN 4 ELSE 0) + cc_type, b1, b2>>

\* The ATSC A/53 payload of a payload_type-4 message: country code,
\* provider code, user_identifier, type code, flags|cc_count, em_data, triplets.
Envelope(country, provider, ident, code, flags, trips) ==
    <<country>> \o provider \o ident \o <<code, flags + Len(trips), 255>>
        \o Flatten(trips)

GA94 == <<71, 65, 57, 52>>
BADX == <<66, 65, 68, 88>>

Ga94(trips) == Envelope(181, <<0, 49>>, GA94, 3, 64, trips)

SeiMsg(payload_type, payload) == <<payload_type, Len(payload)>> \o payload

\* An SEI NAL unit (H.264 type 6) with rbsp trailing bits.
SeiNal(msgs) == <<6>> \o Flatten(msgs) \o <<128>>

\* An access unit delimiter NAL unit.
AudNal == <<9, 240>>

HelloTrips == <<Trip(TRUE, 0, 200, 69), Trip(TRUE, 0, 76, 76), Trip(TRUE, 0, 79, 128)>>
OkTrips == <<Trip(TRUE, 0, 79, 75)>>
AtTrips == <<Trip(TRUE, 0, 72, 69), Trip(TRUE, 0, 64, 65)>>

HelloNal == SeiNal(<<SeiMsg(4, Ga94(HelloTrips))>>)

\* "HELLO" in one SEI NAL unit, in one PES-starting packet.
VHello == VideoPacket(TRUE, START_CODE_4 \o HelloNal)
\* "OK" in one SEI NAL unit, then an access unit delimiter.
VOk == VideoPacket(FALSE, START_CODE_4 \o SeiNal(<<SeiMsg(4, Ga94(OkTrips))>>)
                            \o START_CODE_3 \o AudNal)
\* The "HELLO" NAL unit cut after its 12th byte into two packets; the second
\* one goes on with the next start code and an access unit delimiter.
SplitAt == 12
VSplitA == VideoPacket(TRUE, START_CODE_4 \o Slice(HelloNal, 0, SplitAt))
VSplitB == VideoPacket(FALSE, From(HelloNal, SplitAt) \o START_CODE_3 \o AudNal)
\* user_identifier "BADX".
VBadx == VideoPacket(TRUE, START_CODE_4
            \o SeiNal(<<SeiMsg(4, Envelope(181, <<0, 49>>, BADX, 3, 64, HelloTrips))>>))
\* "HE" then the pair "@A": printable ASCII, '@' (0x40) has odd parity as is.
VAt == VideoPacket(TRUE, START_CODE_4 \o SeiNal(<<SeiMsg(4, Ga94(AtTrips))>>))
\* An SEI NAL unit with one payload_type-5 message, a 3-byte start code, a
\* slice NAL unit (type 1) whose bytes 2.. read as a payload_type-4 message,
\* a 4-byte start code and an access unit delimiter.
VMixed == VideoPacket(TRUE, START_CODE_4 \o <<6, 5, 1, 170>> \o START_CODE_3
            \o <<1, 0>> \o SeiMsg(4, Ga94(<<Trip(TRUE, 0, 72, 69)>>))
            \o START_CODE_4 \o AudNal)
\* One pair, 'H' and a space.
HSpaceTrips == <<Trip(TRUE, 0, 72, 32)>>
VHSpace == VideoPacket(TRUE, START_CODE_4 \o SeiNal(<<SeiMsg(4, Ga94(HSpaceTrips))>>))

PacketMenu ==
    {PatPacket, PmtPacket, VHello, VOk, VSplitA, VSplitB, VBadx, VAt, VMixed, VHSpace}

MaxPackets == 4

Segments == {Flatten(ps) : ps \in SeqsUpTo(PacketMenu, MaxPackets)}

\* ------------------------------------------- optimized_ts_parser.rs

PAT_PID == 0

\* OptimizedTsParser::new
opt_new == [pmt_pid |-> None, video_pid |-> None, stream_type |-> None,
            video_data_buffer |-> <<>>, pat_pmt_parsed |-> FALSE]

\* extract_pid
opt_extract_pid(packet) ==
    BitOr(Shl(BitAnd(At(packet, 1), 31), 8), At(packet, 2))

\* The position after the adaptation field, if the packet has one.
opt_after_adaptation(packet) ==
    IF BitAnd(At(packet, 3), 32) # 0 THEN 4 + 1 + At(packet, 4) ELSE 4

\* parse_pat_packet(self, packet): the parser's fields after the call.
opt_parse_pat_packet(self, packet) ==
    IF BitAnd(At(packet, 3), 16) = 0 THEN self
    ELSE LET a == opt_after_adaptation(packet)
         IN  IF a >= Len(packet) THEN self
             ELSE LET i == a + At(packet, a) + 1
                  IN  IF i + 12 <= Len(packet)
                      THEN [self EXCEPT !.pmt_pid =
                               Some(BitOr(Shl(BitAnd(At(packet, i + 10), 31), 8),
                                          At(packet, i + 11)))]
                      ELSE self

\* The stream loop of parse_pmt_packet: <<video_pid, stream_type>> after it.
RECURSIVE opt_pmt_loop(_, _, _, _, _)
opt_pmt_loop(packet, i, descriptor_loop_length, video_pid, stream_type) ==
    IF ~(descriptor_loop_length >= 5 /\ i + 5 <= Len(packet))
    THEN <<video_pid, stream_type>>
    ELSE LET st == At(packet, i)
             elementary_pid == BitOr(Shl(BitAnd(At(packet, i + 1), 31), 8), At(packet, i + 2))
             esinfo_length == BitOr(Shl(BitAnd(At(packet, i + 3), 15), 8), At(packet, i + 4))
             hit == st = STREAM_TYPE_H264 \/ st = STREAM_TYPE_H265
         IN  opt_pmt_loop(packet, i + 5 + esinfo_length,
                          descriptor_loop_length - (5 + esinfo_length),
                          IF hit THEN Some(elementary_pid) ELSE video_pid,
                          IF hit THEN Some(st) ELSE stream_type)

\* parse_pmt_packet(self, packet): the parser's fields after the call.
opt_parse_pmt_packet(self, packet) ==
    IF BitAnd(At(packet, 3), 16) = 0 THEN self
    ELSE LET a == opt_after_adaptation(packet)
         IN  IF a >= Len(packet) THEN self
             ELSE LET i == a + At(packet, a) + 1
                  IN  IF i + 12 > Len(packet) THEN self
                      ELSE LET section_length ==
                                   BitOr(Shl(BitAnd(At(packet, i + 1), 15), 8), At(packet, i + 2))
                               current == BitAnd(At(packet, i + 5), 1) # 0
                               program_info_length ==
                                   BitOr(Shl(BitAnd(At(packet, i + 10), 15), 8), At(packet, i + 11))
                               descriptor_loop_length ==
                                   section_length - (9 + program_info_length + 4)
                               found == opt_pmt_loop(packet, i + 12 + program_info_length,
                                                     descriptor_loop_length,
                                                     self.video_pid, self.stream_type)
                           IN  IF current
                               THEN [self EXCEPT !.video_pid = found[1],
                                                 !.stream_type = found[2]]
                               ELSE self

\* extract_video_payload(packet): None, or Some(the payload bytes).
opt_extract_video_payload(packet) ==
    LET pusi == BitAnd(At(packet, 1), 64) # 0
        a == opt_after_adaptation(packet)
        i == IF pusi /\ a + 9 <= Len(packet) THEN a + 9 + At(packet, a + 8) ELSE a
    IN  IF BitAnd(At(packet, 3), 16) = 0 THEN None
        ELSE IF i < Len(packet) THEN Some(From(packet, i))
        ELSE None

\* find_start_code(data), the scan from position i on:
\* None, or Some(<<position, length of the start code>>).
RECURSIVE opt_find_start_code_from(_, _)
opt_find_start_code_from(data, i) ==
    IF ~(i + 2 < Len(data)) THEN None
    ELSE IF At(data, i) = 0 /\ At(data, i + 1) = 0
         THEN IF i + 3 < Len(data) /\ At(data, i + 2) = 0 /\ At(data, i + 3) = 1
              THEN Some(<<i, 4>>)
              ELSE IF At(data, i + 2) = 1 THEN Some(<<i, 3>>)
              ELSE opt_find_start_code_from(data, i + 2)
         ELSE opt_find_start_code_from(data, i + 1)

opt_find_start_code(data) == opt_find_start_code_from(data, 0)

\* parse_cea708_data of the optimized parser: the captions of one SEI
\* payload (Ok(None) is <<>>).  Its triplet loop, is_cea608_control_code and
\* decode_cea608_chars are statement for statement those of
\* libcaption_compat.rs.
opt_parse_cea708_data(data) ==
    IF Len(data) < 8 THEN <<>>
    ELSE IF At(data, 0) # 181 THEN <<>>
    ELSE IF 3 + 4 > Len(data) \/ Slice(data, 3, 7) # <<71, 65, 57, 52>> THEN <<>>
    ELSE IF 7 >= Len(data) \/ At(data, 7) # 3 THEN <<>>
    ELSE IF 8 >= Len(data) THEN <<>>
    ELSE LET cc_count == BitAnd(At(data, 8), 31)
             caption_text == lc_cc_loop(data, 10, cc_count, <<>>)
         IN  IF caption_text = <<>> THEN <<>> ELSE <<caption_text>>

\* process_sei_nalu: the message loop, from position i on.
RECURSIVE opt_sei_loop(_, _, _)
opt_sei_loop(data, i, captions) ==
    IF ~(i + 1 < Len(data)) THEN captions
    ELSE LET t == lc_ff_chain(data, i, 0)
         IN  IF t[2] >= Len(data) THEN captions
             ELSE LET payload_type == t[1] + At(data, t[2])
                      s == lc_ff_chain(data, t[2] + 1, 0)
                  IN  IF s[2] >= Len(data) THEN captions
                      ELSE LET payload_size == s[1] + At(data, s[2])
                               j == s[2] + 1
                               extracted ==
                                   IF payload_type = 4 /\ payload_size > 0
                                      /\ j + payload_size <= Len(data)
                                   THEN opt_parse_cea708_data(Slice(data, j, j + payload_size))
                                   ELSE <<>>
                           IN  opt_sei_loop(data, j + payload_size, captions \o extracted)

\* process_sei_nalu(data): the captions of one SEI NAL unit (None is <<>>).
opt_process_sei_nalu(data) == opt_sei_loop(data, 0, <<>>)

\* The captions of the NAL unit nalu_data, decoded only if its type is 6.
opt_nalu_captions(nalu_data) ==
    IF nalu_data # <<>> /\ BitAnd(At(nalu_data, 0), 31) = 6
    THEN opt_process_sei_nalu(From(nalu_data, 1))
    ELSE <<>>

\* The while loop of process_video_buffer_for_sei:
\* <<processed_bytes, captions>> after it.  The unterminated final NAL unit
\* is decoded and the loop left without advancing processed_bytes.
RECURSIVE opt_nal_loop(_, _, _)

\* The body of the loop for the NAL unit whose header is at nalu_header_pos,
\* next being what find_start_code returned for the bytes from there on.
opt_nal_body(buffer, processed_bytes, captions, nalu_header_pos, next) ==
    IF next # None
    THEN LET nalu_end == nalu_header_pos + Unwrap(next)[1]
         IN  opt_nal_loop(buffer, nalu_end,
                 captions \o (IF nalu_header_pos < Len(buffer)
                              THEN opt_nalu_captions(Slice(buffer, nalu_header_pos,
                                                           Min({nalu_end, Len(buffer)})))
                              ELSE <<>>))
    ELSE <<processed_bytes,
           captions \o (IF nalu_header_pos < Len(buffer)
                        THEN opt_nalu_captions(From(buffer, nalu_header_pos))
                        ELSE <<>>)>>

\* The loop once find_start_code has returned found for the bytes from
\* processed_bytes on.
opt_nal_found(buffer, processed_bytes, captions, found) ==
    IF found = None THEN <<processed_bytes, captions>>
    ELSE opt_nal_body(buffer, processed_bytes, captions,
                      processed_bytes + Unwrap(found)[1] + Unwrap(found)[2],
                      opt_find_start_code(From(buffer,
                          processed_bytes + Unwrap(found)[1] + Unwrap(found)[2])))

opt_nal_loop(buffer, processed_bytes, captions) ==
    opt_nal_found(buffer, processed_bytes, captions,
                  opt_find_start_code(From(buffer, processed_bytes)))

\* The buffer update that ends process_video_buffer_for_sei, r being the
\* pair <<processed_bytes, captions>> the loop ends with.
opt_drain(self, r) ==
    [self |-> [self EXCEPT !.video_data_buffer =
                  IF r[1] > 0 \/ r[2] # <<>>
                  THEN (IF r[1] >= Len(@) THEN <<>> ELSE From(@, r[1]))
                  ELSE @],
     captions |-> r[2],
     processed_bytes |-> r[1]]

\* process_video_buffer_for_sei(self): the parser after the call, the
\* captions returned, and processed_bytes as the call ends.
opt_process_video_buffer_for_sei(self) ==
    opt_drain(self, opt_nal_loop(self.video_data_buffer, 0, <<>>))

\* An iteration of the packet loop of parse_ts_file that does not reach
\* process_video_buffer_for_sei.
opt_no_video(self) ==
    [self |-> self, captions |-> <<>>, processed_bytes |-> 0, processed |-> FALSE]

\* "if self.video_pid.is_some() { self.pat_pmt_parsed = true; }"
opt_pmt_done(self) == [self EXCEPT !.pat_pmt_parsed = IsSome(self.video_pid)]

\* Step 4 of the loop body, video_data being what extract_video_payload returned.
opt_video(self, video_data) ==
    IF IsSome(video_data)
    THEN opt_process_video_buffer_for_sei(
             [self EXCEPT !.video_data_buffer = @ \o Unwrap(video_data)])
         @@ [processed |-> TRUE]
    ELSE opt_no_video(self)

\* The body of the packet loop of parse_ts_file for one packet with its pid:
\* the parser after it, the captions extracted, and whether
\* process_video_buffer_for_sei was called (processed).
opt_packet_pid(self, packet, pid) ==
    IF At(packet, 0) # TS_SYNC_BYTE THEN opt_no_video(self)
    ELSE IF ~self.pat_pmt_parsed /\ pid = PAT_PID
    THEN opt_no_video(opt_parse_pat_packet(self, packet))
    ELSE IF ~self.pat_pmt_parsed /\ self.pmt_pid = Some(pid)
    THEN opt_no_video(opt_pmt_done(opt_parse_pmt_packet(self, packet)))
    ELSE IF self.video_pid = Some(pid)
    THEN opt_video(self, opt_extract_video_payload(packet))
    ELSE opt_no_video(self)

opt_packet(self, packet) == opt_packet_pid(self, packet, opt_extract_pid(packet))

\* ------------------------------------------------------------- state

VARIABLES
    data,             \* parse_ts_file: the segment bytes
    i,                \* parse_ts_file: the read position
    pc,               \* parse_ts_file: "scan", "process" or "done"
    captions,         \* parse_ts_file: the captions collected
    video_pid_found,  \* parse_ts_file: the local flag
    parser,           \* the LibcaptionTsParser: pmtpid, ccpid, stream_type, pts, dts, data
    payloads,         \* history: the payloads passed to process_video_data
    nalus             \* history: the NAL units passed to process_nalu, with
                      \* their place in the concatenation of payloads

pipeline_vars == <<data, i, pc, captions, video_pid_found, parser, payloads, nalus>>

VARIABLES
    stream,           \* the bytes the caller of MpegBitstream::parse will feed
    fed,              \* how many of them were fed so far
    bitstream,        \* the MpegBitstream: buffer, stream_type
    sei_messages      \* the messages returned so far, in call order

scanner_vars == <<stream, fed, bitstream, sei_messages>>

VARIABLES
    buffer_len,       \* MpegBitstream fed with bytes that hold no start code:
                      \* the length of its buffer
    fed_len           \* how many such bytes were fed so far

oversize_vars == <<buffer_len, fed_len>>

VARIABLES
    sei_payload,      \* the SEI payload handed to parse_cea708_data
    cea_result        \* None before the call, Some(the captions) after it

cea_vars == <<sei_payload, cea_result>>

VARIABLES
    ts_fed,           \* the packets fed so far to both packet parsers
    tsp,              \* the TsParser: pmtpid, ccpid, stream_type, pts, dts
    ts_result,        \* what TsParser::parse_packet returned last
    ts_reads,         \* the indices of the packet it read in that call
    lcp,              \* a LibcaptionTsParser fed the same packets
    lcp_out,          \* what its parse_packet returned last
    lcp_reads         \* the indices of the packet it read in that call

ts_vars == <<ts_fed, tsp, ts_result, ts_reads, lcp, lcp_out, lcp_reads>>

VARIABLES
    live_pc,             \* process_live_playlist: "sleep" between polls, "segments"
                         \* inside the for loop of process_current_segments
    processed_segments,  \* process_live_playlist: the HashSet of segment URIs
    pending,             \* process_current_segments: the segments not yet iterated
    polls,               \* how many poll cycles were started
    downloads,           \* history: per URI, the calls of download_and_process_segment
    failed,              \* history: the URIs whose last such call returned Err
    skipped              \* history: the URIs the loop skipped at least once

live_vars == <<live_pc, processed_segments, pending, polls, downloads, failed, skipped>>

VARIABLES
    hls_pc,        \* get_lowest_bitrate_segments: "fetch" on entry of a call
                   \* (the outer or a recursive one), "done" once it returned
    hls_url,       \* get_lowest_bitrate_segments: playlist_url of the current call
    hls_web,       \* what fetch_playlist_content returns for each URL
    hls_variants,  \* the #EXT-X-STREAM-INF entries the master playlist was written from
    hls_result     \* None, or the Result the outer call returned

hls_vars == <<hls_pc, hls_url, hls_web, hls_variants, hls_result>>

VARIABLES
    user_data,     \* the SEI payload handed to the user-data parsers
    ud_result,     \* None, or Some of what Cea708Parser::parse_user_data returned
    ud_captions,   \* None, or Some of what parse_cea708_data returned for it
    caption_data,  \* the CaptionData handed to Cea608Decoder::decode_caption_data
    decoded        \* None, or Some of what decode_caption_data returned

ud_vars == <<user_data, ud_result, ud_captions, caption_data, decoded>>

VARIABLES
    nal_unit,         \* the bytes handed to process_nalu and to
                      \* remove_emulation_prevention_bytes
    nal_stream_type,  \* MpegBitstream.stream_type
    nal_messages,     \* None, or Some of what process_nalu returned
    rbsp_once,        \* None, or Some of remove_emulation_prevention_bytes(nal_unit)
    rbsp_twice        \* None, or Some of the function applied to rbsp_once

nal_vars == <<nal_unit, nal_stream_type, nal_messages, rbsp_once, rbsp_twice>>

VARIABLES
    nals_handed,     \* history: the places [from, to) in the stream of the NAL
                     \* units handed to process_nalu, in order
    returned,        \* what the last call of parse or flush returned
    calls,           \* history: the calls made, "parse" or "flush"
    flushed_buffer   \* history: the buffer as the last flush found it

flush_vars == <<nals_handed, returned, calls, flushed_buffer>>

VARIABLES
    opt_data,        \* OptimizedTsParser::parse_ts_file: the segment bytes
    packet_idx,      \* parse_ts_file: the index of the packet loop
    opt_pc,          \* parse_ts_file: "packets", "remaining" or "done"
    opt_parser,      \* the OptimizedTsParser: pmt_pid, video_pid, stream_type,
                     \* video_data_buffer, pat_pmt_parsed
    opt_captions,    \* parse_ts_file: the captions collected
    final_decoded    \* history: the calls of process_video_buffer_for_sei so
                     \* far that took a caption from the unterminated final
                     \* NAL unit and left it in the buffer

opt_vars == <<opt_data, packet_idx, opt_pc, opt_parser, opt_captions, final_decoded>>

later_vars == <<ts_vars, live_vars, hls_vars, ud_vars, nal_vars, flush_vars, opt_vars>>

vars == <<pipeline_vars, scanner_vars, oversize_vars, cea_vars, later_vars>>

\* The components a specification does not run stay as they are here.
IdlePipeline ==
    /\ data = <<>> /\ i = 0 /\ pc = "idle" /\ captions = <<>>
    /\ video_pid_found = FALSE /\ parser = [pmtpid |-> None, ccpid |-> None,
           stream_type |-> None, pts |-> None, dts |-> None, data |-> <<>>]
    /\ payloads = <<>> /\ nalus = <<>>

IdleScanner ==
    /\ stream = <<>> /\ fed = 0 /\ sei_messages = <<>>
    /\ bitstream = [buffer |-> <<>>, stream_type |-> None]

IdleOversize == buffer_len = 0 /\ fed_len = 0

IdleCea == sei_payload = <<>> /\ cea_result = None

IdleTs ==
    /\ ts_fed = <<>> /\ tsp = ts_new /\ ts_result = None /\ ts_reads = {}
    /\ lcp = [pmtpid |-> None, ccpid |-> None, stream_type |-> None,
              pts |-> None, dts |-> None, data |-> <<>>]
    /\ lcp_out = None /\ lcp_reads = {}

\* The segment URIs a live playlist lists over time.
SegmentUris == {"seg1.ts", "seg2.ts", "seg3.ts"}

IdleLive ==
    /\ live_pc = "idle" /\ processed_segments = {} /\ pending = <<>> /\ polls = 0
    /\ downloads = [u \in SegmentUris |-> 0] /\ failed = {} /\ skipped = {}

IdleHls ==
    /\ hls_pc = "idle" /\ hls_url = <<>> /\ hls_web = <<>>
    /\ hls_variants = <<>> /\ hls_result = None

IdleUd ==
    /\ user_data = <<>> /\ ud_result = None /\ ud_captions = None
    /\ caption_data = <<>> /\ decoded = None

IdleNal ==
    /\ nal_unit = <<>> /\ nal_stream_type = None /\ nal_messages = None
    /\ rbsp_once = None /\ rbsp_twice = None

IdleFlush ==
    /\ nals_handed = <<>> /\ returned = <<>> /\ calls = <<>> /\ flushed_buffer = <<>>

IdleOpt ==
    /\ opt_data = <<>> /\ packet_idx = 0 /\ opt_pc = "idle" /\ opt_captions = <<>>
    /\ opt_parser = [pmt_pid |-> None, video_pid |-> None, stream_type |-> None,
                     video_data_buffer |-> <<>>, pat_pmt_parsed |-> FALSE]
    /\ final_decoded = 0

IdleLater == IdleTs /\ IdleLive /\ IdleHls /\ IdleUd /\ IdleNal /\ IdleFlush /\ IdleOpt

\* LibcaptionTsParser::new
lc_new == [pmtpid |-> None, ccpid |-> None, stream_type |-> None,
           pts |-> None, dts |-> None, data |-> <<>>]

InitPipeline ==
    /\ data \in Segments
    /\ i = 0
    /\ pc = "scan"
    /\ captions = <<>>
    /\ video_pid_found = FALSE
    /\ parser = lc_new
    /\ payloads = <<>>
    /\ nalus = <<>>

\* The parser's fields after parse_packet, the buffer kept.
AfterPacket(r) ==
    [pmtpid |-> r.pmtpid, ccpid |-> r.ccpid, stream_type |-> r.stream_type,
     pts |-> r.pts, dts |-> r.dts, data |-> parser.data]

\* One iteration of the first loop of parse_ts_file ("quick scan").
ScanPacket ==
    /\ pc = "scan"
    /\ i + TS_PACKET_SIZE <= Len(data)
    /\ ~(video_pid_found /\ IsSome(parser.ccpid))
    /\ LET packet == Slice(data, i, i + TS_PACKET_SIZE)
       IN  IF At(packet, 0) = 71
           THEN LET r == lc_parse_packet(parser, packet)
                IN  /\ parser' = AfterPacket(r)
                    /\ video_pid_found' = (video_pid_found \/ IsSome(r.ccpid))
           ELSE UNCHANGED <<parser, video_pid_found>>
    /\ i' = i + TS_PACKET_SIZE
    /\ UNCHANGED <<data, pc, captions, payloads, nalus>>
    /\ UNCHANGED <<scanner_vars, oversize_vars, cea_vars, later_vars>>

\* The first loop ends and, instead of going on, starts over.
ScanEnd_rescans ==
    /\ pc = "scan"
    /\ ~(i + TS_PACKET_SIZE <= Len(data) /\ ~(video_pid_found /\ IsSome(parser.ccpid)))
    /\ i' = 0
    /\ UNCHANGED <<data, pc, captions, video_pid_found, parser, payloads, nalus>>
    /\ UNCHANGED <<scanner_vars, oversize_vars, cea_vars, later_vars>>

\* The first loop ends: return early without a video PID, else go on.
ScanEnd ==
    /\ pc = "scan"
    /\ ~(i + TS_PACKET_SIZE <= Len(data) /\ ~(video_pid_found /\ IsSome(parser.ccpid)))
    /\ pc' = IF ~IsSome(parser.ccpid) THEN "done" ELSE "process"
    /\ UNCHANGED <<data, i, captions, video_pid_found, parser, payloads, nalus>>
    /\ UNCHANGED <<scanner_vars, oversize_vars, cea_vars, later_vars>>

\* One iteration of the second loop of parse_ts_file.
ProcessPacket ==
    /\ pc = "process"
    /\ i + TS_PACKET_SIZE <= Len(data)
    /\ LET packet == Slice(data, i, i + TS_PACKET_SIZE)
           r == lc_parse_packet(parser, packet)
       IN  IF At(packet, 0) = 71 /\ IsSome(r.out)
           THEN LET video_data == Unwrap(r.out)
                    v == lc_process_video_data(parser.data, video_data)
                    base == Len(Flatten(payloads)) - Len(parser.data)
                IN  /\ parser' = [AfterPacket(r) EXCEPT !.data = v.data]
                    /\ captions' = captions \o v.captions
                    /\ payloads' = Append(payloads, video_data)
                    /\ nalus' = nalus \o [k \in 1..Len(v.nalus) |->
                                    [from |-> base + v.nalus[k].from,
                                     to |-> base + v.nalus[k].to,
                                     data |-> v.nalus[k].data]]
                    /\ IF captions' # <<>>
                       THEN pc' = "done" /\ i' = i
                       ELSE pc' = pc /\ i' = i + TS_PACKET_SIZE
           ELSE /\ parser' = IF At(packet, 0) = 71 THEN AfterPacket(r) ELSE parser
                /\ i' = i + TS_PACKET_SIZE
                /\ UNCHANGED <<pc, captions, payloads, nalus>>
    /\ UNCHANGED <<data, video_pid_found>>
    /\ UNCHANGED <<scanner_vars, oversize_vars, cea_vars, later_vars>>

\* The second loop ends at the end of the data: return captions.
ProcessEnd ==
    /\ pc = "process"
    /\ ~(i + TS_PACKET_SIZE <= Len(data))
    /\ pc' = "done"
    /\ UNCHANGED <<data, i, captions, video_pid_found, parser, payloads, nalus>>
    /\ UNCHANGED <<scanner_vars, oversize_vars, cea_vars, later_vars>>

NextPipeline == ScanPacket \/ ScanEnd \/ ProcessPacket \/ ProcessEnd

Init ==
    /\ InitPipeline
    /\ IdleScanner /\ IdleOversize /\ IdleCea /\ IdleLater

Next == NextPipeline

\* One call of parse_ts_file on a segment, a loop iteration per step.
Spec == Init /\ [][Next]_vars

\* The same call as it runs: sequential code takes its next step whenever
\* it has one.  The segments are whole packets of a smaller menu (one of
\* them without a sync byte), followed or not by a partial packet.
RunMenu == {PatPacket, PmtPacket, VBadx, VOk, Pad(<<0, 64, 0, 16, 0>>)}

MaxRunPackets == 4

RunSegments ==
    {Flatten(ps) \o tail : ps \in SeqsUpTo(RunMenu, MaxRunPackets),
                           tail \in {<<>>, <<71, 1, 1>>}}

\* Before the call: nothing read yet.
InitRun ==
    /\ data = <<>>
    /\ i = 0
    /\ pc = "call"
    /\ captions = <<>>
    /\ video_pid_found = FALSE
    /\ parser = lc_new
    /\ payloads = <<>>
    /\ nalus = <<>>
    /\ IdleScanner /\ IdleOversize /\ IdleCea /\ IdleLater

\* parse_ts_file is called with a segment.
RunCall ==
    /\ pc = "call"
    /\ data' \in RunSegments
    /\ pc' = "scan"
    /\ UNCHANGED <<i, captions, video_pid_found, parser, payloads, nalus>>
    /\ UNCHANGED <<scanner_vars, oversize_vars, cea_vars, later_vars>>

NextRun == RunCall \/ NextPipeline

\* Weak fairness of NextRun, WF_vars(NextRun), with ENABLED <<NextRun>>_vars
\* written out: a step is possible exactly while the call has not returned
\* (the guards of the two steps of each loop are complements of each other,
\* and each step changes i or pc).
RunFairness == []<>(pc = "done") \/ []<><<NextRun>>_vars

SpecRun == InitRun /\ [][NextRun]_vars /\ RunFairness

\* ------------------------------------------------- the NAL scanner alone

\* The streams fed to the scanner: up to MaxTokens of these pieces in a row.
ScannerTokens == {START_CODE_3, START_CODE_4, <<6, 5, 4, 170>>, <<6, 5, 1, 170>>}

MaxTokens == 5

ScannerStreams == {Flatten(ts) : ts \in SeqsUpTo(ScannerTokens, MaxTokens)}

\* MpegBitstream::new, then set_stream_type or not.
InitScanner ==
    /\ stream \in ScannerStreams
    /\ fed = 0
    /\ bitstream \in {[mb_new EXCEPT !.stream_type = t] :
                        t \in {None, Some(STREAM_TYPE_H264), Some(STREAM_TYPE_H265)}}
    /\ sei_messages = <<>>

\* parse(data, dts, cts) with the next n bytes of the stream; dts is the
\* position of the chunk in the stream, cts is 0.
MbParse(n) ==
    /\ fed + n <= Len(stream)
    /\ LET r == mb_parse(bitstream, Slice(stream, fed, fed + n), fed, 0)
       IN  /\ bitstream' = [bitstream EXCEPT !.buffer = r.buffer]
           /\ sei_messages' = sei_messages \o r.sei_messages
    /\ fed' = fed + n
    /\ UNCHANGED stream
    /\ UNCHANGED <<pipeline_vars, oversize_vars, cea_vars, later_vars>>

NextScanner == \E n \in 1..(Len(stream) - fed) : MbParse(n)

InitScannerAlone ==
    /\ InitScanner
    /\ IdlePipeline /\ IdleOversize /\ IdleCea /\ IdleLater

\* Calls of parse on one scanner, in any chunking of the stream.
SpecScanner == InitScannerAlone /\ [][NextScanner]_vars

\* --------------------------------- the scanner fed without start codes

MiB == 1024 * 1024

\* Chunks are whole multiples of ChunkUnit, up to MaxChunkUnits of them;
\* FeedUnits of them are fed in all (10 MiB).
ChunkUnit == 256 * 1024
MaxChunkUnits == 40
FeedUnits == 40

InitOversize == buffer_len = 0 /\ fed_len = 0

\* parse(data, ..) with n bytes that, with what was fed before, hold no
\* start code: find_start_code finds nothing, so the NAL loop ends at once,
\* returns no message and no error, and the buffer stays as extended.
MbParseNoStartCode(n) ==
    /\ fed_len + n <= FeedUnits * ChunkUnit
    /\ buffer_len' = mb_extend_len(buffer_len, n)
    /\ fed_len' = fed_len + n
    /\ UNCHANGED <<pipeline_vars, scanner_vars, cea_vars, later_vars>>

NextOversize == \E k \in 1..MaxChunkUnits : MbParseNoStartCode(k * ChunkUnit)

InitOversizeAlone ==
    /\ InitOversize
    /\ IdlePipeline /\ IdleScanner /\ IdleCea /\ IdleLater

\* Calls of parse on one scanner with start-code-free data, lengths only.
SpecOversize == InitOversizeAlone /\ [][NextOversize]_vars

\* ------------------------------------------ parse_cea708_data alone

\* The pairs tried: control codes, special-character selectors, '@', ',',
\* letters, space and the null pad, each with and without the parity bit.
PairFirst == {0, 128, 17, 145, 20, 148, 64, 192, 72, 200, 44, 172, 32}
PairSecond == {0, 128, 55, 183, 48, 63, 65, 193, 44, 172, 32}

TripletMenu ==
    {Trip(v, t, b1, b2) : v \in BOOLEAN, t \in 0..3, b1 \in PairFirst, b2 \in PairSecond}

\* Envelopes right and wrong in each field, cut at every length.
EnvelopeVariants ==
    {Envelope(c, p, id, code, fl, HelloTrips) :
        c \in {181, 180}, p \in {<<0, 49>>, <<0, 47>>, <<255, 255>>},
        id \in {GA94, BADX}, code \in {3, 4}, fl \in {64, 0}}

\* What an encoder writes for an RBSP: 03 put in after two zero bytes that a
\* byte of at most 3 follows.
RECURSIVE EmulationPrevented(_)
EmulationPrevented(d) ==
    IF d = <<>> THEN <<>>
    ELSE IF 2 < Len(d) /\ d[1] = 0 /\ d[2] = 0 /\ d[3] <= 3
    THEN <<0, 0, 3>> \o EmulationPrevented(From(d, 2))
    ELSE <<d[1]>> \o EmulationPrevented(Tail(d))

\* A null pad, a triplet marked invalid whose first byte is 01, then "HI":
\* the payload has 00 00 01 in it, 00 00 03 01 once written to the stream.
ZeroRunTrips == <<Trip(TRUE, 0, 0, 0), <<1, 0, 0>>, Trip(TRUE, 0, 72, 73)>>

SeiPayloads ==
    {Slice(e, 0, n) : e \in EnvelopeVariants, n \in 0..19}
        \cup {Ga94(<<t>>) : t \in TripletMenu}
        \cup {Ga94(<<t, Trip(TRUE, 0, 79, 75)>>) : t \in TripletMenu}
        \cup {Ga94(ZeroRunTrips), EmulationPrevented(Ga94(ZeroRunTrips))}

InitCea == sei_payload \in SeiPayloads /\ cea_result = None

\* parse_cea708_data(sei_payload)
CeaParse ==
    /\ cea_result = None
    /\ cea_result' = Some(lc_parse_cea708_data(sei_payload))
    /\ UNCHANGED sei_payload
    /\ UNCHANGED <<pipeline_vars, scanner_vars, oversize_vars, later_vars>>

NextCea == CeaParse

InitCeaAlone ==
    /\ InitCea
    /\ IdlePipeline /\ IdleScanner /\ IdleOversize /\ IdleLater

\* One call of parse_cea708_data on one SEI payload.
SpecCea == InitCeaAlone /\ [][NextCea]_vars

\* --------------------------------------------- the packet parsers alone

\* A PAT whose program entry names the PMT PID 0x0200.
Pat2Packet ==
    Pad(<<71, 64, 0, 16, 0,
          0, 176, 13, 0, 1, 195, 0, 0, 0, 1, 226, 0, 1, 2, 3, 4>>)

\* A PMT section on PID 0x0100 with one stream entry.
PmtSection(section_length, current_byte, program_info_length, st, epid_lo, esinfo_length) ==
    Pad(<<71, 65, 0, 16, 0,
          2, 176 + (section_length \div 256), section_length % 256, 0, 1,
          current_byte, 0, 0, 225, 1,
          240 + (program_info_length \div 256), program_info_length % 256,
          st, 225, epid_lo, 240 + (esinfo_length \div 256), esinfo_length % 256,
          1, 2, 3, 4>>)

\* H.265 on PID 0x0102 (a revision of the PMT).
Pmt265Packet == PmtSection(18, 195, 0, STREAM_TYPE_H265, 2, 0)
\* H.264 on PID 0x0101, current_next_indicator 0.
PmtNotCurrent == PmtSection(18, 192, 0, STREAM_TYPE_H264, 1, 0)
\* One audio stream (type 0x0F) only.
PmtAudioOnly == PmtSection(18, 193, 0, 15, 3, 0)
\* program_info_length past the end of the packet.
PmtProgInfoLong == PmtSection(4095, 193, 200, STREAM_TYPE_H264, 1, 0)
\* An audio entry whose es_info_length runs past the end of the packet.
PmtEsInfoLong == PmtSection(4095, 193, 0, 15, 3, 4095)
\* Two video streams: H.264 on PID 0x0101, then H.265 on PID 0x0102.
PmtTwoVideo ==
    Pad(<<71, 65, 0, 16, 0,
          2, 176, 23, 0, 1, 193, 0, 0, 225, 1, 240, 0,
          STREAM_TYPE_H264, 225, 1, 240, 0,
          STREAM_TYPE_H265, 225, 2, 240, 0, 1, 2, 3, 4>>)
\* A pointer field past the end of the packet.
PmtPointerLong == Pad(<<71, 65, 0, 16, 200>>)

\* PID 0 with an adaptation field longer than the packet.
PatAdaptLong == Pad(<<71, 64, 0, 48, 255>>)
\* PID 0 with an adaptation field that leaves one byte, 0xFF, as pointer field.
PatAdaptLast == Pad(<<71, 64, 0, 48, 182>>)

\* "OK" on PID 0x0102.
VOk265 == <<71, 1, 2>> \o From(VOk, 3)
\* Video with a PES header_length past the end of the packet.
VHeaderLong == Pad(<<71, 65, 1, 16, 0, 0, 1, 224, 0, 0, 128, 128, 255, 33, 0, 1, 0, 1>>)
\* Video, payload_unit_start set, three payload bytes: no room for a PES header.
VPesShort == Pad(<<71, 65, 1, 48, 180>>)
\* Video whose PES header announces a PTS that the packet has no room for.
VPtsShort == Pad(<<71, 65, 1, 48, 170>> \o Repeat(255, 170)
                    \o <<0, 0, 1, 224, 0, 0, 192, 128, 5>>)
\* Video with PTS and DTS.
VPtsDts == Pad(<<71, 65, 1, 16, 0, 0, 1, 224, 0, 0, 128, 192, 10,
                 49, 0, 1, 0, 3, 17, 0, 1, 0, 1, 0, 0, 1, 9, 240>>)
\* No sync byte.
NoSync == Pad(<<0, 64, 0, 16, 0>>)

TsPacketMenu ==
    {PatPacket, Pat2Packet, PmtPacket, Pmt265Packet, PmtNotCurrent, PmtAudioOnly,
     PmtTwoVideo, PmtProgInfoLong, PmtEsInfoLong, PmtPointerLong, PatAdaptLong,
     PatAdaptLast,
     VHello, VOk, VOk265, VHeaderLong, VPesShort, VPtsShort, VPtsDts, NoSync}

MaxTsPackets == 3

InitTs ==
    /\ ts_fed = <<>>
    /\ tsp = ts_new
    /\ ts_result = None
    /\ ts_reads = {}
    /\ lcp = lc_new
    /\ lcp_out = None
    /\ lcp_reads = {}

\* One packet goes to TsParser::parse_packet (as extract_pes_packets calls
\* it) and to LibcaptionTsParser::parse_packet (as parse_ts_file calls it:
\* only behind the test of the sync byte).
TsParsePacket(packet) ==
    /\ Len(ts_fed) < MaxTsPackets
    /\ ts_fed' = Append(ts_fed, packet)
    /\ LET r == ts_parse_packet(tsp, packet)
       IN  /\ tsp' = [pmtpid |-> r.pmtpid, ccpid |-> r.ccpid,
                      stream_type |-> r.stream_type, pts |-> r.pts, dts |-> r.dts]
           /\ ts_result' = r.result
    /\ ts_reads' = ts_packet_reads(tsp, packet)
    /\ IF At(packet, 0) = 71
       THEN LET r == lc_parse_packet(lcp, packet)
            IN  /\ lcp' = [pmtpid |-> r.pmtpid, ccpid |-> r.ccpid,
                           stream_type |-> r.stream_type, pts |-> r.pts,
                           dts |-> r.dts, data |-> lcp.data]
                /\ lcp_out' = r.out
                /\ lcp_reads' = lc_packet_reads(lcp, packet)
       ELSE /\ lcp_out' = None
            /\ lcp_reads' = {}
            /\ UNCHANGED lcp
    /\ UNCHANGED <<pipeline_vars, scanner_vars, oversize_vars, cea_vars, live_vars, hls_vars, ud_vars, nal_vars, flush_vars, opt_vars>>

NextTs == \E packet \in TsPacketMenu : TsParsePacket(packet)

InitTsAlone ==
    /\ InitTs
    /\ IdlePipeline /\ IdleScanner /\ IdleOversize /\ IdleCea /\ IdleLive /\ IdleHls /\ IdleUd /\ IdleNal /\ IdleFlush /\ IdleOpt

\* Packets of one segment through both packet parsers.
SpecTs == InitTsAlone /\ [][NextTs]_vars

\* --------------------------------------------- the live playlist loop

\* What get_lowest_bitrate_segments can return in a poll: the URIs of up to
\* MaxListed segments, in any order, a URI possibly listed twice.
MaxListed == 3
Playlists == SeqsUpTo(SegmentUris, MaxListed)

MaxPolls == 3

\* process_live_playlist before its loop.
InitLive ==
    /\ live_pc = "sleep"
    /\ processed_segments = {}
    /\ pending = <<>>
    /\ polls = 0
    /\ downloads = [u \in SegmentUris |-> 0]
    /\ failed = {}
    /\ skipped = {}

\* process_current_segments starts: get_lowest_bitrate_segments returns Ok.
PollStart(segments) ==
    /\ live_pc = "sleep"
    /\ polls < MaxPolls
    /\ polls' = polls + 1
    /\ pending' = segments
    /\ live_pc' = "segments"
    /\ UNCHANGED <<processed_segments, downloads, failed, skipped>>
    /\ UNCHANGED <<pipeline_vars, scanner_vars, oversize_vars, cea_vars, ts_vars, hls_vars, ud_vars, nal_vars, flush_vars, opt_vars>>

\* get_lowest_bitrate_segments returns Err: process_current_segments returns
\* it, process_live_playlist logs it and sleeps.
PollFails ==
    /\ live_pc = "sleep"
    /\ polls < MaxPolls
    /\ polls' = polls + 1
    /\ UNCHANGED <<live_pc, pending, processed_segments, downloads, failed, skipped>>
    /\ UNCHANGED <<pipeline_vars, scanner_vars, oversize_vars, cea_vars, ts_vars, hls_vars, ud_vars, nal_vars, flush_vars, opt_vars>>

\* The for loop meets a URI that is in processed_segments: continue.
SkipSegment ==
    /\ live_pc = "segments"
    /\ pending # <<>>
    /\ Head(pending) \in processed_segments
    /\ pending' = Tail(pending)
    /\ skipped' = skipped \cup {Head(pending)}
    /\ UNCHANGED <<live_pc, processed_segments, polls, downloads, failed>>
    /\ UNCHANGED <<pipeline_vars, scanner_vars, oversize_vars, cea_vars, ts_vars, hls_vars, ud_vars, nal_vars, flush_vars, opt_vars>>

\* The for loop body without the insert into processed_segments.
DownloadSegment_no_insert(is_ok) ==
    /\ live_pc = "segments"
    /\ pending # <<>>
    /\ Head(pending) \notin processed_segments
    /\ downloads' = [downloads EXCEPT ![Head(pending)] = @ + 1]
    /\ failed' = IF is_ok THEN failed \ {Head(pending)} ELSE failed \cup {Head(pending)}
    /\ pending' = Tail(pending)
    /\ UNCHANGED <<live_pc, processed_segments, polls, skipped>>
    /\ UNCHANGED <<pipeline_vars, scanner_vars, oversize_vars, cea_vars, ts_vars, hls_vars, ud_vars, nal_vars, flush_vars, opt_vars>>

\* The for loop body for a URI not in processed_segments:
\* download_and_process_segment returns Ok (is_ok) or Err, then the insert.
DownloadSegment(is_ok) ==
    /\ live_pc = "segments"
    /\ pending # <<>>
    /\ Head(pending) \notin processed_segments
    /\ downloads' = [downloads EXCEPT ![Head(pending)] = @ + 1]
    /\ failed' = IF is_ok THEN failed \ {Head(pending)} ELSE failed \cup {Head(pending)}
    /\ processed_segments' = processed_segments \cup {Head(pending)}
    /\ pending' = Tail(pending)
    /\ UNCHANGED <<live_pc, polls, skipped>>
    /\ UNCHANGED <<pipeline_vars, scanner_vars, oversize_vars, cea_vars, ts_vars, hls_vars, ud_vars, nal_vars, flush_vars, opt_vars>>

\* The for loop is over: Ok(()), then sleep(poll_interval).
PollEnd ==
    /\ live_pc = "segments"
    /\ pending = <<>>
    /\ live_pc' = "sleep"
    /\ UNCHANGED <<pending, processed_segments, polls, downloads, failed, skipped>>
    /\ UNCHANGED <<pipeline_vars, scanner_vars, oversize_vars, cea_vars, ts_vars, hls_vars, ud_vars, nal_vars, flush_vars, opt_vars>>

NextLive ==
    \/ \E segments \in Playlists : PollStart(segments)
    \/ PollFails
    \/ SkipSegment
    \/ \E is_ok \in BOOLEAN : DownloadSegment(is_ok)
    \/ PollEnd

InitLiveAlone ==
    /\ InitLive
    /\ IdlePipeline /\ IdleScanner /\ IdleOversize /\ IdleCea /\ IdleTs /\ IdleHls /\ IdleUd /\ IdleNal /\ IdleFlush /\ IdleOpt

\* The poll cycles of process_live_playlist.
SpecLive == InitLiveAlone /\ [][NextLive]_vars

\* --------------------------------------------------- hls.rs, HlsParser

\* A playlist is the sequence of its lines after line.trim(). A line is told
\* by what starts_with tests of the parsers can see of it: the
\* #EXT-X-STREAM-INF: tag with its attributes as split(',') yields them, the
\* #EXTINF: tag, any other line starting with '#', the empty line, or a URI.
\* An attribute value is the sequence of the characters after '=', each its
\* ASCII code.
StreamInfLine(attrs) == [kind |-> "#EXT-X-STREAM-INF:", attrs |-> attrs]
ExtInfLine(duration) == [kind |-> "#EXTINF:", duration |-> duration]
TagLine(text)        == [kind |-> "#", text |-> text]
EmptyLine            == [kind |-> ""]
UriLine(uri)         == [kind |-> "uri", uri |-> uri]
Attribute(name, value) == [name |-> name, value |-> value]

\* str::parse::<u32> on the characters of an attribute value.
RECURSIVE DecimalValue(_)
DecimalValue(digits) ==
    IF digits = <<>> THEN 0
    ELSE 10 * DecimalValue(SubSeq(digits, 1, Len(digits) - 1)) + (digits[Len(digits)] - 48)

RECURSIVE StripZeros(_)
StripZeros(digits) ==
    IF digits # <<>> /\ Head(digits) = 48 THEN StripZeros(Tail(digits)) ELSE digits

RECURSIVE LexGreater(_, _)
LexGreater(a, b) ==
    /\ a # <<>>
    /\ \/ Head(a) > Head(b)
       \/ Head(a) = Head(b) /\ LexGreater(Tail(a), Tail(b))

\* The digits of u32::MAX, 4294967295.
U32MaxText == <<52, 50, 57, 52, 57, 54, 55, 50, 57, 53>>

\* The number does not fit in a u32 (told on the digits).
ExceedsU32(digits) ==
    \/ Len(StripZeros(digits)) > Len(U32MaxText)
    \/ Len(StripZeros(digits)) = Len(U32MaxText) /\ LexGreater(StripZeros(digits), U32MaxText)

hls_parse_u32(chars) ==
    IF chars = <<>> \/ \E k \in 1..Len(chars) : chars[k] \notin 48..57 THEN None
    ELSE IF ExceedsU32(chars) THEN None
    ELSE Some(DecimalValue(chars))

\* A URL is the sequence of its scheme, host and path segments; a relative
\* reference is a sequence of path segments.
hls_resolve_url(base_url, relative_url) ==
    IF relative_url # <<>> /\ relative_url[1] \in {"http:", "https:"}
    THEN relative_url
    ELSE SubSeq(base_url, 1, Len(base_url) - 1) \o relative_url

hls_is_master_playlist(content) ==
    \E k \in 1..Len(content) : content[k].kind = "#EXT-X-STREAM-INF:"

\* extract_bandwidth: the first attribute named BANDWIDTH whose value parses.
RECURSIVE hls_extract_bandwidth(_)
hls_extract_bandwidth(attrs) ==
    IF attrs = <<>> THEN None
    ELSE IF Head(attrs).name = "BANDWIDTH" /\ IsSome(hls_parse_u32(Head(attrs).value))
         THEN hls_parse_u32(Head(attrs).value)
         ELSE hls_extract_bandwidth(Tail(attrs))

\* The for loop of parse_master_playlist.
RECURSIVE hls_master_loop(_, _, _, _)
hls_master_loop(content, base_url, current_bandwidth, playlists) ==
    IF content = <<>> THEN playlists
    ELSE LET line == Head(content) IN
         IF line.kind = "#EXT-X-STREAM-INF:"
         THEN hls_master_loop(Tail(content), base_url,
                              hls_extract_bandwidth(line.attrs), playlists)
         ELSE IF line.kind = "uri" /\ IsSome(current_bandwidth)
         THEN hls_master_loop(Tail(content), base_url, None,
                  Append(playlists, [uri |-> hls_resolve_url(base_url, line.uri),
                                     bandwidth |-> Unwrap(current_bandwidth)]))
         ELSE hls_master_loop(Tail(content), base_url, current_bandwidth, playlists)

\* Vec::sort_by_key(|p| p.bandwidth): a stable sort.
RECURSIVE InsertByBandwidth(_, _)
InsertByBandwidth(sorted, p) ==
    IF sorted = <<>> THEN <<p>>
    ELSE IF Head(sorted).bandwidth <= p.bandwidth
         THEN <<Head(sorted)>> \o InsertByBandwidth(Tail(sorted), p)
         ELSE <<p>> \o sorted

RECURSIVE SortByBandwidth(_)
SortByBandwidth(playlists) ==
    IF playlists = <<>> THEN <<>>
    ELSE InsertByBandwidth(SortByBandwidth(SubSeq(playlists, 1, Len(playlists) - 1)),
                           playlists[Len(playlists)])

\* parse_master_playlist without its sort.
hls_parse_master_playlist_unsorted(content, base_url) ==
    hls_master_loop(content, base_url, None, <<>>)

hls_parse_master_playlist(content, base_url) ==
    SortByBandwidth(hls_master_loop(content, base_url, None, <<>>))

\* The for loop of parse_media_playlist.
RECURSIVE hls_media_loop(_, _, _, _)
hls_media_loop(content, base_url, current_duration, segments) ==
    IF content = <<>> THEN segments
    ELSE LET line == Head(content) IN
         IF line.kind = "#EXTINF:"
         THEN hls_media_loop(Tail(content), base_url, line.duration, segments)
         ELSE IF line.kind = "uri"
         THEN hls_media_loop(Tail(content), base_url, 0,
                  Append(segments, [uri |-> hls_resolve_url(base_url, line.uri),
                                    duration |-> current_duration]))
         ELSE hls_media_loop(Tail(content), base_url, current_duration, segments)

hls_parse_media_playlist(content, base_url) ==
    hls_media_loop(content, base_url, 0, <<>>)

\* ------------------------------------ get_lowest_bitrate_segments, a call

MasterUrl == <<"https:", "cdn", "live", "master.m3u8">>

\* The BANDWIDTH values of the variants, as written in the playlist.
\* 800000, 1280000, 0900000 and 2000000000; Absent is an entry written
\* without the attribute.
Absent == <<>>
BandwidthTexts ==
    { <<56, 48, 48, 48, 48, 48>>, <<49, 50, 56, 48, 48, 48, 48>>,
      <<48, 57, 48, 48, 48, 48, 48>>,
      <<50, 48, 48, 48, 48, 48, 48, 48, 48, 48>>, Absent }

\* How the attributes of an entry are laid out around BANDWIDTH.
AttributeLayouts == {"first", "after-program-id", "before-average"}

StreamInfAttrs(layout, bandwidth) ==
    IF bandwidth = Absent
    THEN <<Attribute("PROGRAM-ID", <<49>>), Attribute("AVERAGE-BANDWIDTH", <<49>>)>>
    ELSE IF layout = "first"
    THEN <<Attribute("BANDWIDTH", bandwidth), Attribute("RESOLUTION", <<54, 52, 48, 120, 51, 54, 48>>)>>
    ELSE IF layout = "after-program-id"
    THEN <<Attribute("PROGRAM-ID", <<49>>), Attribute("BANDWIDTH", bandwidth)>>
    ELSE <<Attribute("AVERAGE-BANDWIDTH", <<49>>), Attribute("BANDWIDTH", bandwidth),
           Attribute("CODECS", <<34, 97, 118, 99, 49, 34>>)>>

\* Where the k-th variant's media playlist is, as the master playlist names it.
VariantRef(k) ==
    IF k = 1 THEN <<"v1", "index.m3u8">>
    ELSE IF k = 2 THEN <<"v2.m3u8">>
    ELSE <<"https:", "edge", "v3", "index.m3u8">>

\* The k-th variant's media playlist.
MediaContent(k) ==
    IF k = 1
    THEN <<TagLine("#EXTM3U"), TagLine("#EXT-X-TARGETDURATION:6"),
           ExtInfLine(6), UriLine(<<"a1.ts">>), ExtInfLine(6), UriLine(<<"a0.ts">>)>>
    ELSE IF k = 2
    THEN <<TagLine("#EXTM3U"), ExtInfLine(4), UriLine(<<"b1.ts">>), EmptyLine,
           ExtInfLine(4), UriLine(<<"https:", "edge", "b2.ts">>),
           UriLine(<<"b1.ts">>), TagLine("#EXT-X-ENDLIST")>>
    ELSE <<TagLine("#EXTM3U"), ExtInfLine(2), EmptyLine, UriLine(<<"c1.ts">>)>>

MaxVariants == 3

\* The master playlists: one entry per variant, each followed by its URI line,
\* with or without an empty line in between.
RECURSIVE MasterLines(_, _, _, _)
MasterLines(variants, layout, spaced, k) ==
    IF k > Len(variants) THEN <<>>
    ELSE <<StreamInfLine(StreamInfAttrs(layout, variants[k]))>>
         \o (IF spaced THEN <<EmptyLine>> ELSE <<>>)
         \o <<UriLine(VariantRef(k))>>
         \o MasterLines(variants, layout, spaced, k + 1)

MasterContent(variants, layout, spaced) ==
    <<TagLine("#EXTM3U"), TagLine("#EXT-X-VERSION:3")>>
    \o MasterLines(variants, layout, spaced, 1)

\* fetch_playlist_content over a master with these variants.
WebOf(variants, layout, spaced) ==
    [url \in {MasterUrl} \cup {hls_resolve_url(MasterUrl, VariantRef(k)) : k \in 1..Len(variants)} |->
        IF url = MasterUrl THEN MasterContent(variants, layout, spaced)
        ELSE MediaContent(CHOOSE k \in 1..Len(variants) :
                              url = hls_resolve_url(MasterUrl, VariantRef(k)))]

\* Before get_lowest_bitrate_segments(MasterUrl) or, with no variants, of
\* the first media playlist directly.
InitHls ==
    /\ hls_pc = "fetch"
    /\ hls_result = None
    /\ \E variants \in SeqsUpTo(BandwidthTexts, MaxVariants) :
       \E layout \in AttributeLayouts : \E spaced \in BOOLEAN :
          /\ hls_variants = variants
          /\ IF variants = <<>>
             THEN /\ hls_url = hls_resolve_url(MasterUrl, VariantRef(1))
                  /\ hls_web = [url \in {hls_url} |-> MediaContent(1)]
                  /\ layout = "first" /\ ~spaced
             ELSE /\ hls_url = MasterUrl
                  /\ hls_web = WebOf(variants, layout, spaced)

\* The playlist is a master with a variant: the recursive call on the first one.
FollowVariant ==
    /\ hls_pc = "fetch"
    /\ hls_is_master_playlist(hls_web[hls_url])
    /\ hls_parse_master_playlist(hls_web[hls_url], hls_url) # <<>>
    /\ hls_url' = hls_parse_master_playlist(hls_web[hls_url], hls_url)[1].uri
    /\ UNCHANGED <<hls_pc, hls_web, hls_variants, hls_result>>
    /\ UNCHANGED <<pipeline_vars, scanner_vars, oversize_vars, cea_vars, ts_vars, live_vars, ud_vars, nal_vars, flush_vars, opt_vars>>

\* The playlist is a master without a usable variant: Err.
NoMediaPlaylists ==
    /\ hls_pc = "fetch"
    /\ hls_is_master_playlist(hls_web[hls_url])
    /\ hls_parse_master_playlist(hls_web[hls_url], hls_url) = <<>>
    /\ hls_result' = Some([ok |-> FALSE, segments |-> <<>>])
    /\ hls_pc' = "done"
    /\ UNCHANGED <<hls_url, hls_web, hls_variants>>
    /\ UNCHANGED <<pipeline_vars, scanner_vars, oversize_vars, cea_vars, ts_vars, live_vars, ud_vars, nal_vars, flush_vars, opt_vars>>

\* The playlist is not a master: parse_media_playlist.
ReturnSegments ==
    /\ hls_pc = "fetch"
    /\ ~hls_is_master_playlist(hls_web[hls_url])
    /\ hls_result' = Some([ok |-> TRUE,
                           segments |-> hls_parse_media_playlist(hls_web[hls_url], hls_url)])
    /\ hls_pc' = "done"
    /\ UNCHANGED <<hls_url, hls_web, hls_variants>>
    /\ UNCHANGED <<pipeline_vars, scanner_vars, oversize_vars, cea_vars, ts_vars, live_vars, ud_vars, nal_vars, flush_vars, opt_vars>>

NextHls == FollowVariant \/ NoMediaPlaylists \/ ReturnSegments

InitHlsAlone ==
    /\ InitHls
    /\ IdlePipeline /\ IdleScanner /\ IdleOversize /\ IdleCea /\ IdleTs /\ IdleLive /\ IdleUd /\ IdleNal /\ IdleFlush /\ IdleOpt

\* One call of HlsParser::get_lowest_bitrate_segments.
SpecHls == InitHlsAlone /\ [][NextHls]_vars

\* ------------------------------------- the user-data parsers, one payload

\* The triplets tried: valid or not, each cc_type, "HI" or the music note.
UdTriplets ==
    {Trip(v, t, b[1], b[2]) : v \in BOOLEAN, t \in 0..3, b \in {<<72, 73>>, <<17, 55>>}}

MaxUdTriplets == 2

\* The envelope as Cea708Parser::parse_user_data walks it: the
\* user_identifier right after the country code.
EnvelopeNoProvider(flags, trips) ==
    <<181>> \o GA94 \o <<3, flags + Len(trips), 255>> \o Flatten(trips)

\* A/53 envelopes with cc_count below, at and above the triplets present,
\* with process_cc_data_flag clear, with another provider code, with a cut
\* triplet at the end, and envelopes without provider code.
UserDataOf(trips) ==
    {Envelope(181, <<0, 49>>, GA94, 3, fl, trips) : fl \in {63, 64, 65, 0}}
        \cup {Envelope(181, <<71, 65>>, GA94, 3, 64, trips),
              Envelope(181, <<0, 49>>, GA94, 3, 65, trips) \o <<252, 72>>,
              EnvelopeNoProvider(64, trips)}

UserDataPayloads ==
    UNION {UserDataOf(trips) : trips \in SeqsUpTo(UdTriplets, MaxUdTriplets)}

\* Every whole triplet of a payload from byte 10 on, as CaptionData.
AllTriplets(d) ==
    [k \in 1..(IF Len(d) >= 10 THEN (Len(d) - 10) \div 3 ELSE 0) |->
        CaptionData(BitAnd(At(d, 7 + 3 * k), 4) # 0, BitAnd(At(d, 7 + 3 * k), 3),
                    At(d, 8 + 3 * k), At(d, 9 + 3 * k))]

InitUd ==
    /\ user_data \in UserDataPayloads
    /\ ud_result = None
    /\ ud_captions = None
    /\ caption_data = AllTriplets(user_data)
    /\ decoded = None

\* Cea708Parser::parse_user_data(user_data)
ParseUserData ==
    /\ ud_result = None
    /\ ud_result' = Some(cea708_parse_user_data(user_data))
    /\ UNCHANGED <<user_data, ud_captions, caption_data, decoded>>
    /\ UNCHANGED <<pipeline_vars, scanner_vars, oversize_vars, cea_vars, ts_vars, live_vars, hls_vars, nal_vars, flush_vars, opt_vars>>

\* LibcaptionTsParser::parse_cea708_data(user_data)
ParseCea708Data ==
    /\ ud_captions = None
    /\ ud_captions' = Some(lc_parse_cea708_data(user_data))
    /\ UNCHANGED <<user_data, ud_result, caption_data, decoded>>
    /\ UNCHANGED <<pipeline_vars, scanner_vars, oversize_vars, cea_vars, ts_vars, live_vars, hls_vars, nal_vars, flush_vars, opt_vars>>

\* Cea608Decoder::decode_caption_data(caption_data)
DecodeCaptionData ==
    /\ decoded = None
    /\ decoded' = Some(cea608_decode_caption_data(caption_data))
    /\ UNCHANGED <<user_data, ud_result, ud_captions, caption_data>>
    /\ UNCHANGED <<pipeline_vars, scanner_vars, oversize_vars, cea_vars, ts_vars, live_vars, hls_vars, nal_vars, flush_vars, opt_vars>>

NextUd == ParseUserData \/ ParseCea708Data \/ DecodeCaptionData

InitUdAlone ==
    /\ InitUd
    /\ IdlePipeline /\ IdleScanner /\ IdleOversize /\ IdleCea /\ IdleTs /\ IdleLive /\ IdleHls /\ IdleNal /\ IdleFlush /\ IdleOpt

\* One SEI payload through the user-data parsers and the CEA-608 decoder.
SpecUd == InitUdAlone /\ [][NextUd]_vars

\* ------------------------------------------------- one NAL unit alone

\* SEI messages as they lie in a NAL unit: a caption-type message, a message
\* of size 0, one with 00 00 03 in its payload, one whose payload is shorter
\* than declared, and a cut 0xFF chain.
NalMessageMenu ==
    {<<4, 2, 181, 7>>, <<5, 0>>, <<1, 4, 0, 0, 3, 1>>, <<4, 9, 1>>, <<255>>}

MaxNalMessages == 3

\* NAL header bytes: H.264 type 6 without and with nal_ref_idc bits, the
\* H.265 header of nal_unit_type 39, and the byte 39 itself.
NalHeaders == {6, 102, 78, 39}

NalUnits ==
    {<<h>> \o Flatten(ms) \o tail :
        h \in NalHeaders, ms \in SeqsUpTo(NalMessageMenu, MaxNalMessages),
        tail \in {<<>>, <<128>>}}

\* Byte strings over 00, 03 and one other byte.
MaxEpbLen == 6
EpbInputs == SeqsUpTo({0, 3, 7}, MaxEpbLen)

InitNal ==
    /\ nal_unit \in NalUnits \cup EpbInputs
    /\ nal_stream_type \in {None, Some(STREAM_TYPE_H264), Some(STREAM_TYPE_H265)}
    /\ nal_messages = None
    /\ rbsp_once = None
    /\ rbsp_twice = None

\* process_nalu(nal_unit, 0.0) on a scanner with this stream_type.
ProcessNalu ==
    /\ nal_messages = None
    /\ nal_messages' = Some(mb_process_nalu(nal_stream_type, nal_unit, 0))
    /\ UNCHANGED <<nal_unit, nal_stream_type, rbsp_once, rbsp_twice>>
    /\ UNCHANGED <<pipeline_vars, scanner_vars, oversize_vars, cea_vars, ts_vars, live_vars, hls_vars, ud_vars, flush_vars, opt_vars>>

\* remove_emulation_prevention_bytes(nal_unit)
RemoveEpb ==
    /\ rbsp_once = None
    /\ rbsp_once' = Some(mb_remove_emulation_prevention_bytes(nal_unit))
    /\ UNCHANGED <<nal_unit, nal_stream_type, nal_messages, rbsp_twice>>
    /\ UNCHANGED <<pipeline_vars, scanner_vars, oversize_vars, cea_vars, ts_vars, live_vars, hls_vars, ud_vars, flush_vars, opt_vars>>

\* remove_emulation_prevention_bytes on what it returned.
RemoveEpbAgain ==
    /\ rbsp_once # None
    /\ rbsp_twice = None
    /\ rbsp_twice' = Some(mb_remove_emulation_prevention_bytes(Unwrap(rbsp_once)))
    /\ UNCHANGED <<nal_unit, nal_stream_type, nal_messages, rbsp_once>>
    /\ UNCHANGED <<pipeline_vars, scanner_vars, oversize_vars, cea_vars, ts_vars, live_vars, hls_vars, ud_vars, flush_vars, opt_vars>>

NextNal == ProcessNalu \/ RemoveEpb \/ RemoveEpbAgain

InitNalAlone ==
    /\ InitNal
    /\ IdlePipeline /\ IdleScanner /\ IdleOversize /\ IdleCea /\ IdleTs /\ IdleLive /\ IdleHls /\ IdleUd /\ IdleFlush /\ IdleOpt

\* One NAL unit through process_nalu and remove_emulation_prevention_bytes.
SpecNal == InitNalAlone /\ [][NextNal]_vars

\* ------------------------------------------- the scanner, parse and flush

\* The pieces of the streams: the two start codes, an SEI NAL unit with one
\* message, and a NAL unit of type 9 whose bytes after the header read as
\* an SEI NAL unit.
FlushTokens == {START_CODE_3, START_CODE_4, <<6, 5, 1, 170>>, <<9, 6, 5, 1, 171>>}

MaxFlushTokens == 3

FlushStreams == {Flatten(ts) : ts \in SeqsUpTo(FlushTokens, MaxFlushTokens)}

MaxCalls == 3

\* MpegBitstream::new and set_stream_type(0x1B).
InitFlush ==
    /\ stream \in FlushStreams
    /\ fed = 0
    /\ bitstream = [mb_new EXCEPT !.stream_type = Some(STREAM_TYPE_H264)]
    /\ sei_messages = <<>>
    /\ nals_handed = <<>>
    /\ returned = <<>>
    /\ calls = <<>>
    /\ flushed_buffer = <<>>

\* parse(data, 0.0, 0.0) with the next n bytes of the stream.
FlushParse(n) ==
    /\ Len(calls) < MaxCalls
    /\ fed + n <= Len(stream)
    /\ LET d == Slice(stream, fed, fed + n)
           r == mb_parse(bitstream, d, 0, 0)
       IN  /\ bitstream' = [bitstream EXCEPT !.buffer = r.buffer]
           /\ sei_messages' = sei_messages \o r.sei_messages
           /\ returned' = r.sei_messages
           /\ nals_handed' = mb_nal_loop_handed(mb_extend(bitstream.buffer, d),
                                           fed + n - Len(mb_extend(bitstream.buffer, d)),
                                           nals_handed)
    /\ fed' = fed + n
    /\ calls' = Append(calls, "parse")
    /\ UNCHANGED <<stream, flushed_buffer>>
    /\ UNCHANGED <<pipeline_vars, oversize_vars, cea_vars, ts_vars, live_vars, hls_vars, ud_vars, nal_vars, opt_vars>>

\* flush()
Flush ==
    /\ Len(calls) < MaxCalls
    /\ LET r == mb_flush(bitstream)
       IN  /\ bitstream' = [bitstream EXCEPT !.buffer = r.buffer]
           /\ sei_messages' = sei_messages \o r.sei_messages
           /\ returned' = r.sei_messages
    /\ nals_handed' = nals_handed \o mb_flush_handed(bitstream, fed - Len(bitstream.buffer))
    /\ flushed_buffer' = bitstream.buffer
    /\ calls' = Append(calls, "flush")
    /\ UNCHANGED <<stream, fed>>
    /\ UNCHANGED <<pipeline_vars, oversize_vars, cea_vars, ts_vars, live_vars, hls_vars, ud_vars, nal_vars, opt_vars>>

NextFlush ==
    \/ \E n \in 1..(Len(stream) - fed) : FlushParse(n)
    \/ Flush

InitFlushAlone ==
    /\ InitFlush
    /\ IdlePipeline /\ IdleOversize /\ IdleCea /\ IdleTs /\ IdleLive /\ IdleHls /\ IdleUd /\ IdleNal /\ IdleOpt

\* Calls of parse and flush on one scanner, in any chunking of the stream.
SpecFlush == InitFlushAlone /\ [][NextFlush]_vars

\* ------------------------------------------- what a segment carries
\* The stream a segment carries, read as sections 3 and 4 of the
\* specification describe it: the video payloads in packet order, NAL units
\* framed by the leftmost start codes of the whole stream, SEI messages as a
\* chain of type, size and payload.

\* The video payloads of all the packets of the segment, in order.
RECURSIVE VideoPayloads(_, _, _)
VideoPayloads(d, k, self) ==
    IF ~(k + TS_PACKET_SIZE <= Len(d)) THEN <<>>
    ELSE LET packet == Slice(d, k, k + TS_PACKET_SIZE)
             r == lc_parse_packet(self, packet)
         IN  IF At(packet, 0) = 71
             THEN (IF IsSome(r.out) THEN <<Unwrap(r.out)>> ELSE <<>>)
                      \o VideoPayloads(d, k + TS_PACKET_SIZE,
                                       [r EXCEPT !.out = None] @@ [data |-> <<>>])
             ELSE VideoPayloads(d, k + TS_PACKET_SIZE, self)

VideoStream(d) == Flatten(VideoPayloads(d, 0, lc_new))

\* The positions of the pattern 00 00 01 (the end of either start-code form).
StartCodesOf(s) == {p \in 0..(Len(s) - 3) : Slice(s, p, p + 3) = START_CODE_3}

\* Where the NAL unit that starts at position b of s ends: before the next
\* start code, whose 4-byte form takes the zero byte before 00 00 01 with it.
NalEnd(s, b) ==
    LET after == {q \in StartCodesOf(s) : q >= b}
    IN  IF after = {} THEN Len(s)
        ELSE LET q == Min(after)
             IN  IF q - 1 >= b /\ At(s, q - 1) = 0 THEN q - 1 ELSE q

\* The NAL units of s in order, each with its place: [from, to, data].
RECURSIVE NalUnitsFrom(_, _)
NalUnitsFrom(s, b) ==
    LET after == {q \in StartCodesOf(s) : q >= b}
    IN  IF after = {} THEN <<>>
        ELSE LET from == Min(after) + 3
                 to == NalEnd(s, from)
             IN  <<[from |-> from, to |-> to, data |-> Slice(s, from, to)]>>
                     \o NalUnitsFrom(s, to)

NalUnitsOf(s) == NalUnitsFrom(s, 0)

\* A chain of 0xFF bytes and a last byte below 255, from position k of d:
\* <<TRUE, value, next position>>, or <<FALSE>> when the chain is cut short.
RECURSIVE ChainAt(_, _, _)
ChainAt(d, k, acc) ==
    IF k >= Len(d) THEN <<FALSE>>
    ELSE IF At(d, k) = 255 THEN ChainAt(d, k + 1, acc + 255)
    ELSE <<TRUE, acc + At(d, k), k + 1>>

\* 00 00 03 collapsed to 00 00.
RECURSIVE Rbsp(_)
Rbsp(d) ==
    IF d = <<>> THEN <<>>
    ELSE IF Len(d) >= 3 /\ d[1] = 0 /\ d[2] = 0 /\ d[3] = 3
    THEN <<0, 0>> \o Rbsp(From(d, 3))
    ELSE <<d[1]>> \o Rbsp(Tail(d))

\* The SEI messages of the body of an SEI NAL unit: [payload_type, data].
RECURSIVE SeiMessagesFrom(_, _)
SeiMessagesFrom(d, k) ==
    LET t == ChainAt(d, k, 0)
    IN  IF ~t[1] THEN <<>>
        ELSE LET z == ChainAt(d, t[3], 0)
             IN  IF ~z[1] \/ z[3] + z[2] > Len(d) THEN <<>>
                 ELSE <<[payload_type |-> t[2], data |-> Rbsp(Slice(d, z[3], z[3] + z[2]))]>>
                         \o SeiMessagesFrom(d, z[3] + z[2])

\* The SEI messages of a stream, in stream order (H.264: NAL unit type 6).
RECURSIVE SeiMessagesOfNals(_)
SeiMessagesOfNals(ns) ==
    IF ns = <<>> THEN <<>>
    ELSE (IF Head(ns).data # <<>> /\ BitAnd(At(Head(ns).data, 0), 31) = 6
          THEN SeiMessagesFrom(From(Head(ns).data, 1), 0) ELSE <<>>)
             \o SeiMessagesOfNals(Tail(ns))

SeiMessagesOf(s) == SeiMessagesOfNals(NalUnitsOf(s))

\* The ATSC A/53 envelope of a payload validates.
EnvelopeValid(d) ==
    /\ Len(d) >= 8
    /\ At(d, 0) = 181
    /\ Slice(d, 3, 7) = GA94
    /\ At(d, 7) = 3

\* The payload_type-4 messages of the segment whose envelope validates.
ValidCaptionMessages(d) ==
    SelectSeq(SeiMessagesOf(VideoStream(d)),
              LAMBDA m : m.payload_type = 4 /\ EnvelopeValid(m.data))

\* One caption for each such message that decodes to non-empty text.
RECURSIVE CaptionsOfMessages(_)
CaptionsOfMessages(ms) ==
    IF ms = <<>> THEN <<>>
    ELSE lc_parse_cea708_data(Head(ms).data) \o CaptionsOfMessages(Tail(ms))

ExpectedCaptions(d) == CaptionsOfMessages(ValidCaptionMessages(d))

\* ------------------------------------------------------------- claims

\* a is b with some elements left out, the order kept.
RECURSIVE IsSubsequence(_, _)
IsSubsequence(a, b) ==
    IF a = <<>> THEN TRUE
    ELSE IF b = <<>> THEN FALSE
    ELSE IF Head(a) = Head(b) THEN IsSubsequence(Tail(a), Tail(b))
    ELSE IsSubsequence(a, Tail(b))

\* C1: parse_ts_file returns, in stream order, one caption for every
\* payload_type-4 SEI message of the segment with a valid GA94 envelope that
\* decodes to non-empty text, also for messages in packets that come after
\* the first caption-bearing packet.
C1_EveryCaptionReturned ==
    pc = "done" => IsSubsequence(ExpectedCaptions(data), captions)

\* The characters a sequence of triplets carries: each byte of each pair
\* without its parity bit, the 0x00 pad left out.
RECURSIVE PairChars(_)
PairChars(trips) ==
    IF trips = <<>> THEN <<>>
    ELSE LET c1 == BitAnd(Head(trips)[2], 127)
             c2 == BitAnd(Head(trips)[3], 127)
         IN  (IF c1 # 0 THEN <<c1>> ELSE <<>>) \o (IF c2 # 0 THEN <<c2>> ELSE <<>>)
                 \o PairChars(Tail(trips))

\* The segment of scenario 1: PAT, PMT, one video packet with one SEI NAL
\* unit holding a single payload_type-4 message with these triplets.
OneSeiSegment(trips) ==
    Flatten(<<PatPacket, PmtPacket,
              VideoPacket(TRUE, START_CODE_4 \o SeiNal(<<SeiMsg(4, Ga94(trips))>>))>>)

AsciiTripletRuns == {HelloTrips, OkTrips, AtTrips}

\* C2: for a PAT, a PMT and one SEI NAL unit with a single payload_type-4
\* message whose valid cc_type-0 triplets carry printable ASCII pairs,
\* parse_ts_file returns exactly one caption: the characters of the triplets
\* in triplet order ("HE","LL","O\0" gives "HELLO").
C2_AsciiRunIsTheCaption ==
    \A trips \in AsciiTripletRuns :
        (pc = "done" /\ data = OneSeiSegment(trips)) => captions = <<PairChars(trips)>>

\* The bytes of a payload after its last start code, and before its first.
TailAfterLastStartCode(p) ==
    LET P == StartCodesOf(p)
    IN  IF P = {} THEN <<>> ELSE From(p, (CHOOSE q \in P : \A r \in P : r <= q) + 3)

HeadBeforeFirstStartCode(p) ==
    IF StartCodesOf(p) = {} THEN <<>> ELSE Slice(p, 0, NalEnd(p, 0))

\* C4: a NAL unit whose start code and first bytes end one video payload and
\* whose remaining bytes and next start code are in the following payload is
\* handed to process_nalu exactly once, as the concatenation of the two parts.
C4_SplitNalHandedWhole ==
    \A k \in 1..(Len(payloads) - 1) :
        LET a == TailAfterLastStartCode(payloads[k])
            b == HeadBeforeFirstStartCode(payloads[k + 1])
            boundary == Len(Flatten(SubSeq(payloads, 1, k)))
            handed == {n \in 1..Len(nalus) : nalus[n].from = boundary - Len(a)}
        IN  (a # <<>> /\ b # <<>>) =>
                /\ Cardinality(handed) = 1
                /\ \A n \in handed : nalus[n].data = a \o b

\* C7: the captions returned are at most as many as the payload_type-4 SEI
\* messages of the segment whose envelope validates, and no byte range of the
\* stream is decoded more than once.
C7_AtMostOneCaptionPerMessage ==
    pc = "done" =>
        /\ Len(captions) <= Len(ValidCaptionMessages(data))
        /\ \A j, k \in 1..Len(nalus) : j < k => nalus[j].to <= nalus[k].from

\* The payload_type and data of each message.
TypeAndData(ms) == [k \in 1..Len(ms) |-> <<ms[k].payload_type, ms[k].data>>]

\* C3: streaming equivalence of MpegBitstream::parse: the messages returned
\* by the calls on the chunks c1..cn of a stream, in call order, are those
\* returned by one call on a fresh scanner with the whole stream.
C3_StreamingEquivalence ==
    fed = Len(stream) =>
        TypeAndData(sei_messages) =
            TypeAndData(mb_parse([bitstream EXCEPT !.buffer = <<>>], stream, 0, 0).sei_messages)

\* C5: after any sequence of parse calls the buffer holds at most
\* MAX_NALU_SIZE bytes, also when the bytes hold no start code and come in
\* one chunk.
C5_BufferAtMostMax == buffer_len <= MAX_NALU_SIZE

\* A NAL unit of s that is not empty and ends at a start code.
HasCompleteNal(s) ==
    \E k \in 1..Len(NalUnitsOf(s)) :
        /\ NalUnitsOf(s)[k].to > NalUnitsOf(s)[k].from
        /\ NalUnitsOf(s)[k].to < Len(s)

\* C6: after every parse call the buffer holds no complete NAL unit (start
\* code, bytes, start code), also when the second start code ends the buffer.
C6_NoCompleteNalLeft == ~HasCompleteNal(bitstream.buffer)

\* The payload with bytes 1..2 (the provider code) replaced.
WithProvider(d, p) ==
    [k \in 1..Len(d) |-> IF k = 2 /\ Len(p) >= 1 THEN p[1]
                         ELSE IF k = 3 /\ Len(p) >= 2 THEN p[2]
                         ELSE d[k]]

\* C8: parse_cea708_data produces a caption only if byte 0 is 0xB5, bytes
\* 3..6 are "GA94" and byte 7 is 0x03; bytes 1..2 never change the result; a
\* mismatch or a payload too short for these fields gives no caption.
C8_CaptionOnlyInValidEnvelope ==
    IsSome(cea_result) =>
        /\ Unwrap(cea_result) # <<>> => EnvelopeValid(sei_payload)
        /\ ~EnvelopeValid(sei_payload) => Unwrap(cea_result) = <<>>
        /\ \A p \in {<<0, 0>>, <<0, 49>>, <<255, 255>>} :
               lc_parse_cea708_data(WithProvider(sei_payload, p)) = Unwrap(cea_result)

\* An envelope with another provider code than ATSC's gave "HELLO", and
\* the same bytes under "BADX" are among the inputs.
C8_Witness ==
    /\ sei_payload = Envelope(181, <<255, 255>>, GA94, 3, 64, HelloTrips)
    /\ cea_result = Some(<<PairChars(HelloTrips)>>)

\* The payload with the parity bit of every cc_data byte cleared.
ParityStripped(d) ==
    [k \in 1..Len(d) |-> IF k > 10 /\ (k - 11) % 3 # 0 THEN BitAnd(d[k], 127) ELSE d[k]]

\* C9: the characters a valid cc_type-0/1 triplet contributes depend only on
\* its parity-stripped pair: decoding a payload gives what decoding it with
\* the parity bits of all pairs cleared gives.
C9_DecodeIgnoresParity ==
    IsSome(cea_result) =>
        Unwrap(cea_result) = lc_parse_cea708_data(ParityStripped(sei_payload))

\* C10: a valid cc_type-0/1 triplet whose pair parity-strips to 0x11 and a
\* byte in 0x30..0x3F contributes the matching entry of the special-character
\* table; (0x11, 0xB7) decodes to the music note.
C10_SpecialCharacterDecoded ==
    \A t \in 0..1, b1 \in {17, 145}, b2 \in (48..63) \cup (176..191) :
        (IsSome(cea_result) /\ sei_payload = Ga94(<<Trip(TRUE, t, b1, b2)>>)) =>
            Unwrap(cea_result) =
                <<<<Unwrap(cea608_decode_special_character(BitAnd(b2, 127)))>>>>

\* C11: a triplet whose first data byte parity-strips to 0x10..0x1F
\* contributes no characters, alone or before a valid ASCII triplet, and the
\* ASCII triplet after it ("OK") still contributes its characters.
C11_ControlPairThenAscii ==
    \A t \in TripletMenu :
        (IsSome(cea_result) /\ BitAnd(t[2], 127) \in 16..31) =>
            /\ sei_payload = Ga94(<<t>>) => Unwrap(cea_result) = <<>>
            /\ sei_payload = Ga94(<<t, Trip(TRUE, 0, 79, 75)>>)
                   => Unwrap(cea_result) = <<<<79, 75>>>>

\* The pair (0x94, 0x41), parity bit set on the control byte, then "OK".
C11_Witness ==
    /\ sei_payload = Ga94(<<Trip(TRUE, 0, 148, 65), Trip(TRUE, 0, 79, 75)>>)
    /\ cea_result = Some(<<<<79, 75>>>>)

\* C12: every caption parse_ts_file returns is non-empty and has no leading
\* and no trailing whitespace character.
C12_CaptionsTrimmed ==
    pc = "done" =>
        \A k \in 1..Len(captions) :
            captions[k] # <<>> /\ Trim(captions[k]) = captions[k]

\* C13: TsParser::parse_packet and LibcaptionTsParser::parse_packet read only
\* indices inside the 188-byte packet, whatever the adaptation field, the
\* pointer field, program_info_length, es_info_length or the PES
\* header_length say, and in whatever state the parser is.
C13_ReadsInsidePacket ==
    /\ \A k \in ts_reads : k >= 0 /\ k < TS_PACKET_SIZE
    /\ \A k \in lcp_reads : k >= 0 /\ k < TS_PACKET_SIZE

\* A PID-0 packet whose adaptation field runs past the end was parsed after
\* a PMT whose es_info_length does: only the four header bytes and the
\* adaptation length were read, and the call returned Ok.
C13_Witness ==
    /\ Len(ts_fed) = 3
    /\ ts_fed[2] = PmtEsInfoLong
    /\ ts_fed[3] = PatAdaptLong
    /\ ts_reads = {0, 1, 2, 3, 4}
    /\ lcp_reads = {1, 2, 3, 4}
    /\ ts_result = None

\* C15: once a parser has a video PID, no later packet changes its PMT PID,
\* its video PID or its stream_type.
C15_VideoPidLearntOnce ==
    [][/\ IsSome(tsp.ccpid) =>
              /\ tsp'.pmtpid = tsp.pmtpid
              /\ tsp'.ccpid = tsp.ccpid
              /\ tsp'.stream_type = tsp.stream_type
       /\ IsSome(lcp.ccpid) =>
              /\ lcp'.pmtpid = lcp.pmtpid
              /\ lcp'.ccpid = lcp.ccpid
              /\ lcp'.stream_type = lcp.stream_type]_vars

\* The PID of a packet, and what the packets of the menu carry.
PidOf(packet) == BitOr(Shl(BitAnd(At(packet, 1), 31), 8), At(packet, 2))
PmtPidNamedBy(packet) ==
    IF packet = PatPacket THEN Some(256)
    ELSE IF packet = Pat2Packet THEN Some(512)
    ELSE None
ListsVideoStream(packet) ==
    packet \in {PmtPacket, Pmt265Packet, PmtNotCurrent, PmtTwoVideo}

\* C16: TsParser::parse_packet returns Ready only after an earlier PID-0
\* packet named the PMT PID and an earlier packet on that PID listed a stream
\* of type 0x1B or 0x24; the packet that yields Ready is neither on PID 0 nor
\* on the PMT PID.
C16_ReadyOnlyAfterPatAndPmt ==
    IsSome(ts_result) =>
        LET n == Len(ts_fed)
        IN  /\ \E a \in 1..(n - 1), b \in 1..(n - 1) :
                   /\ a < b
                   /\ PidOf(ts_fed[a]) = 0
                   /\ IsSome(PmtPidNamedBy(ts_fed[a]))
                   /\ PidOf(ts_fed[b]) = Unwrap(PmtPidNamedBy(ts_fed[a]))
                   /\ ListsVideoStream(ts_fed[b])
            /\ PidOf(ts_fed[n]) # 0
            /\ IsSome(tsp.pmtpid) /\ PidOf(ts_fed[n]) # Unwrap(tsp.pmtpid)

\* PAT, PMT, then the "HELLO" packet on the video PID: Ready with its payload.
C16_Witness ==
    /\ ts_fed = <<PatPacket, PmtPacket, VHello>>
    /\ IsSome(ts_result)
    /\ Unwrap(ts_result).data = START_CODE_4 \o HelloNal

\* C14: parse_ts_file terminates and returns Ok: the call reaches its
\* return, both packet loops advance by 188 bytes per iteration, every NAL
\* loop iteration that hands over a NAL unit drains the buffer past the one
\* before, and the SEI message loop has consumed all it was given.
C14_ParseTsFileTerminates ==
    /\ <>(pc = "done")
    /\ [][(pc \in {"scan", "process"} /\ pc' = pc) => i' = i + TS_PACKET_SIZE]_vars
    /\ [](\A k \in 1..(Len(nalus) - 1) :
              nalus[k].from < nalus[k].to /\ nalus[k].to < nalus[k + 1].to)

\* Both loops ran to the end of a four-packet segment whose two video
\* packets each gave the NAL loop a NAL unit and the SEI loop a message.
C14_Witness ==
    /\ pc = "done"
    /\ data = Flatten(<<PatPacket, PmtPacket, VBadx, VBadx>>)
    /\ i = Len(data)
    /\ Len(nalus) = 2
    /\ captions = <<>>

\* C17: a failure of download_and_process_segment does not mark the segment
\* URI as processed, so that the next poll that lists it retries it.
C17_FailedSegmentNotMarked ==
    \A u \in failed : u \notin processed_segments

\* C18: each segment URI is downloaded and processed at most once over all
\* poll cycles, processed_segments only grows, and between two polls nothing
\* of a cycle is left over.
C18_EachUriAtMostOnce ==
    /\ [](\A u \in SegmentUris : downloads[u] <= 1)
    /\ [](live_pc = "sleep" => pending = <<>>)
    /\ [][processed_segments \subseteq processed_segments']_vars

\* A URI was downloaded once and skipped in a later poll that listed it again.
C18_Witness ==
    /\ polls >= 2
    /\ "seg1.ts" \in skipped
    /\ downloads["seg1.ts"] = 1
    /\ processed_segments = {"seg1.ts", "seg2.ts"}

\* The segment URIs the k-th variant's media playlist lists, in its order.
SegmentUrisListed(k) ==
    IF k = 1
    THEN << <<"https:", "cdn", "live", "v1", "a1.ts">>,
            <<"https:", "cdn", "live", "v1", "a0.ts">> >>
    ELSE IF k = 2
    THEN << <<"https:", "cdn", "live", "b1.ts">>, <<"https:", "edge", "b2.ts">>,
            <<"https:", "cdn", "live", "b1.ts">> >>
    ELSE << <<"https:", "edge", "v3", "c1.ts">> >>

\* The entries of the master playlist that carry a BANDWIDTH value.
EntriesWithBandwidth ==
    {k \in 1..Len(hls_variants) : hls_variants[k] # Absent}

UrisOf(segments) == [n \in 1..Len(segments) |-> segments[n].uri]

\* C19: given a master playlist, get_lowest_bitrate_segments returns the
\* segment URIs, in listed order, of the media playlist of a variant whose
\* BANDWIDTH is the minimum over the #EXT-X-STREAM-INF entries.
C19_FollowsLowestBandwidth ==
    (hls_pc = "done" /\ EntriesWithBandwidth # {}) =>
        \E k \in EntriesWithBandwidth :
            /\ \A j \in EntriesWithBandwidth :
                   DecimalValue(hls_variants[k]) <= DecimalValue(hls_variants[j])
            /\ Unwrap(hls_result).ok
            /\ UrisOf(Unwrap(hls_result).segments) = SegmentUrisListed(k)

\* The call returned the second variant's segments: it is listed between two
\* variants of higher BANDWIDTH, one of them written with a leading zero.
C19_Witness ==
    /\ hls_pc = "done"
    /\ hls_variants = << <<49, 50, 56, 48, 48, 48, 48>>, <<56, 48, 48, 48, 48, 48>>,
                         <<48, 57, 48, 48, 48, 48, 48>> >>
    /\ UrisOf(Unwrap(hls_result).segments) = SegmentUrisListed(2)

\* C20: parse_cea708_data reads the envelope and the cc_data of a
\* payload_type-4 message with every 00 00 03 collapsed to 00 00: a payload
\* with 00 00 03 01 in it is decoded as the one with 00 00 01.
C20_EmulationPreventionCollapsed ==
    IsSome(cea_result) =>
        Unwrap(cea_result) =
            lc_parse_cea708_data(mb_remove_emulation_prevention_bytes(sei_payload))

\* C21: a PMT section that lists two video streams leaves the parser with
\* the PID and stream_type of the first of them, in TsParser::parse_packet
\* and in LibcaptionTsParser::parse_packet.
C21_FirstVideoEntryKept ==
    (ts_fed # <<>> /\ ts_fed[Len(ts_fed)] = PmtTwoVideo) =>
        /\ tsp.pmtpid = Some(PidOf(PmtTwoVideo)) =>
               tsp.ccpid = Some(257) /\ tsp.stream_type = Some(STREAM_TYPE_H264)
        /\ lcp.pmtpid = Some(PidOf(PmtTwoVideo)) =>
               lcp.ccpid = Some(257) /\ lcp.stream_type = Some(STREAM_TYPE_H264)

\* C22: an SEI payload whose envelope validates and whose byte 8 has
\* process_cc_data_flag (bit 6) clear yields no caption from
\* parse_cea708_data.
C22_NoCaptionWithoutProcessCcDataFlag ==
    (/\ IsSome(cea_result)
     /\ EnvelopeValid(sei_payload)
     /\ Len(sei_payload) > 8
     /\ BitAnd(At(sei_payload, 8), 64) = 0) =>
        Unwrap(cea_result) = <<>>

\* The triplets of a payload laid out as the A/53 envelope table has it:
\* the first min(cc_count, whole triplets from byte 10 on).
TripletsExamined(d) ==
    IF Len(d) <= 8 THEN <<>>
    ELSE SubSeq(AllTriplets(d), 1,
                IF BitAnd(At(d, 8), 31) <= Len(AllTriplets(d))
                THEN BitAnd(At(d, 8), 31) ELSE Len(AllTriplets(d)))

IsValidTriplet(t) == t.cc_valid

\* C23: parse_user_data returns the valid triplets from byte 10 on iff
\* byte 0 is 0xB5, bytes 3..6 are "GA94", byte 7 is 0x03 and
\* process_cc_data_flag is set in byte 8, whatever the provider code is.
C23_A53LayoutAccepted ==
    IsSome(ud_result) =>
        Unwrap(ud_result) =
            IF EnvelopeValid(user_data) /\ Len(user_data) > 8
               /\ BitAnd(At(user_data, 8), 64) # 0
            THEN SelectSeq(TripletsExamined(user_data), IsValidTriplet)
            ELSE <<>>

\* A triplet that may contribute: cc_valid set and cc_type 0 or 1.
Contributes(t) == t.cc_valid /\ t.cc_type <= 1

\* The characters parse_cea708_data takes from triplets, one after the other.
RECURSIVE TextOfTriplets(_)
TextOfTriplets(ts) ==
    IF ts = <<>> THEN <<>>
    ELSE LET b1 == Head(ts).cc_data[1]
             b2 == Head(ts).cc_data[2]
             text == IF lc_is_cea608_control_code(b1, b2) THEN None
                     ELSE lc_decode_cea608_chars(b1, b2)
         IN  (IF IsSome(text) THEN Unwrap(text) ELSE <<>>) \o TextOfTriplets(Tail(ts))

\* C24: only triplets with cc_valid set and cc_type 0 or 1 contribute
\* characters: parse_cea708_data returns the text of those among the first
\* min(cc_count, whole triplets from byte 10 on) triplets, and
\* decode_caption_data returns what it returns for those entries alone.
C24_OnlyValidField12Triplets ==
    /\ (IsSome(ud_captions) /\ EnvelopeValid(user_data) /\ Len(user_data) > 8) =>
           LET text == TextOfTriplets(SelectSeq(TripletsExamined(user_data), Contributes))
           IN  Unwrap(ud_captions) = IF text = <<>> THEN <<>> ELSE <<text>>
    /\ IsSome(decoded) =>
           Unwrap(decoded) =
               cea608_decode_caption_data(SelectSeq(caption_data, Contributes))

\* A valid cc_type-2 triplet and a valid cc_type-1 triplet, both "HI": one
\* "HI" from each decoder.
C24_Witness ==
    /\ user_data = Ga94(<<Trip(TRUE, 2, 72, 73), Trip(TRUE, 1, 72, 73)>>)
    /\ ud_captions = Some(<< <<72, 73>> >>)
    /\ decoded = Some(<< <<72, 73>> >>)

HasPayload(m) == m.data # <<>>

\* C25: in an H.264 SEI NAL unit a message of payload_size 0 yields no
\* SeiMessage and does not end the iteration: parse_sei returns every
\* message with a payload up to the first cut chain or cut payload.
C25_EmptyPayloadDoesNotEndIteration ==
    (/\ IsSome(nal_messages)
     /\ nal_stream_type = Some(STREAM_TYPE_H264)
     /\ nal_unit # <<>>
     /\ BitAnd(At(nal_unit, 0), 31) = H264_SEI_PACKET) =>
        TypeAndData(Unwrap(nal_messages)) =
            TypeAndData(SelectSeq(SeiMessagesFrom(From(nal_unit, 1), 0), HasPayload))

\* The nal_unit_type of an H.265 NAL unit header: bits 1..6 of byte 0.
H265NalUnitType(b) == Shr(BitAnd(b, 126), 1)

\* C26: process_nalu parses the messages of an H.264 NAL unit of type 6
\* (low 5 bits of byte 0) when stream_type is 0x1B, and those of an H.265
\* NAL unit of type 39 when stream_type is 0x24.
C26_SeiTypePerStreamType ==
    (IsSome(nal_messages) /\ nal_unit # <<>>) =>
        /\ (/\ nal_stream_type = Some(STREAM_TYPE_H264)
            /\ BitAnd(At(nal_unit, 0), 31) = H264_SEI_PACKET) =>
               Unwrap(nal_messages) = mb_parse_sei(From(nal_unit, 1), 0)
        /\ (/\ nal_stream_type = Some(STREAM_TYPE_H265)
            /\ H265NalUnitType(At(nal_unit, 0)) = H265_SEI_PACKET) =>
               Unwrap(nal_messages) = mb_parse_sei(From(nal_unit, 1), 0)

\* The places (1-based) of the 03 of every 00 00 03 in d; two occurrences
\* of the triple cannot overlap.
EmulationBytesOf(d) ==
    {p + 2 : p \in {q \in 1..(Len(d) - 2) : d[q] = 0 /\ d[q + 1] = 0 /\ d[q + 2] = 3}}

\* d without the bytes at the places in drop, the others in order.
WithoutPlaces(d, drop) ==
    LET kept == (1..Len(d)) \ drop
    IN  [k \in 1..Cardinality(kept) |->
            d[CHOOSE j \in kept : Cardinality({n \in kept : n <= j}) = k]]

\* C28: remove_emulation_prevention_bytes drops exactly the 03 of each
\* 00 00 03 of its input and keeps every other byte in order; an input
\* without the triple comes back unchanged, also from a second application.
C28_DropsExactlyTheEmulationBytes ==
    /\ IsSome(rbsp_once) =>
           /\ Unwrap(rbsp_once) = WithoutPlaces(nal_unit, EmulationBytesOf(nal_unit))
           /\ Len(Unwrap(rbsp_once)) = Len(nal_unit) - Cardinality(EmulationBytesOf(nal_unit))
           /\ EmulationBytesOf(nal_unit) = {} => Unwrap(rbsp_once) = nal_unit
    /\ (IsSome(rbsp_twice) /\ EmulationBytesOf(nal_unit) = {}) =>
           Unwrap(rbsp_twice) = Unwrap(rbsp_once)

\* Two triples in a row lose their two 03 bytes, and a second application
\* changes nothing more.
C28_Witness ==
    /\ nal_unit = <<0, 0, 3, 0, 0, 3>>
    /\ rbsp_once = Some(<<0, 0, 0, 0>>)
    /\ rbsp_twice = Some(<<0, 0, 0, 0>>)

\* A start code (either form) ends just before place p of the stream.
StartCodeEndsAt(p) == p >= 3 /\ Slice(stream, p - 3, p) = START_CODE_3

\* C27: every NAL unit handed to process_nalu by parse or flush starts right
\* after a start code, which is the leftmost of the bytes not yet consumed,
\* holds no start code, and ends where the next start code begins or, from
\* flush, where the fed bytes end.
C27_NalUnitBetweenStartCodes ==
    \A k \in 1..Len(nals_handed) :
        LET h == nals_handed[k]
            consumed == IF k = 1 THEN 0 ELSE nals_handed[k - 1].to
        IN  /\ StartCodeEndsAt(h.from)
            /\ \A p \in (consumed + 3)..(h.from - 1) : ~StartCodeEndsAt(p)
            /\ \A p \in (h.from + 3)..h.to : ~StartCodeEndsAt(p)
            /\ \/ h.to = fed
               \/ StartCodeEndsAt(h.to + 3)
               \/ StartCodeEndsAt(h.to + 4) /\ At(stream, h.to) = 0

\* The SEI messages of the bytes after the last start code of a buffer.
FinalNalMessages(buffer, stream_type) ==
    IF NalUnitsOf(buffer) = <<>> THEN <<>>
    ELSE mb_process_nalu(stream_type,
                         NalUnitsOf(buffer)[Len(NalUnitsOf(buffer))].data, 0)

\* C29: flush returns the SEI messages of the bytes after the last start
\* code of the buffer and leaves the buffer empty; a flush right after a
\* flush returns nothing.
C29_FlushReturnsFinalNal ==
    (calls # <<>> /\ calls[Len(calls)] = "flush") =>
        /\ bitstream.buffer = <<>>
        /\ returned = FinalNalMessages(flushed_buffer, bitstream.stream_type)
        /\ (Len(calls) >= 2 /\ calls[Len(calls) - 1] = "flush") => returned = <<>>

\* ------------------------------- OptimizedTsParser::parse_ts_file

\* The segments: whole packets of a menu with the tables, a caption in an
\* unterminated NAL unit, one in a terminated NAL unit, and one cut in two.
OptMenu == {PatPacket, PmtPacket, VHello, VOk, VSplitA, VSplitB}

MaxOptPackets == 4

OptSegments == {Flatten(ps) : ps \in SeqsUpTo(OptMenu, MaxOptPackets)}

InitOpt ==
    /\ opt_data \in OptSegments
    /\ packet_idx = 0
    /\ opt_pc = "packets"
    /\ opt_parser = opt_new
    /\ opt_captions = <<>>
    /\ final_decoded = 0

\* The call of process_video_buffer_for_sei that returned r took a caption
\* and consumed nothing: the caption came from the unterminated final NAL
\* unit, which the call leaves in the buffer.
KeptFinalNal(r) == r.captions # <<>> /\ r.processed_bytes = 0

\* "captions.extend(...)" after a call of process_video_buffer_for_sei that
\* returned r, with the parser as the call left it.
OptExtend(r) ==
    /\ opt_parser' = r.self
    /\ opt_captions' = opt_captions \o r.captions
    /\ final_decoded' = final_decoded + (IF KeptFinalNal(r) THEN 1 ELSE 0)

\* The end of an iteration whose body gave r: "break" if captions were
\* found, the next packet otherwise.
OptIteration(r) ==
    /\ OptExtend(r)
    /\ opt_pc' = IF r.processed /\ opt_captions' # <<>> THEN "remaining" ELSE "packets"
    /\ packet_idx' = IF opt_pc' = "remaining" THEN packet_idx ELSE packet_idx + 1

\* One iteration of the packet loop of parse_ts_file.
OptPacket ==
    /\ opt_pc = "packets"
    /\ packet_idx < Len(opt_data) \div TS_PACKET_SIZE
    /\ OptIteration(opt_packet(opt_parser,
                                Slice(opt_data, packet_idx * TS_PACKET_SIZE,
                                      packet_idx * TS_PACKET_SIZE + TS_PACKET_SIZE)))
    /\ UNCHANGED opt_data
    /\ UNCHANGED <<pipeline_vars, scanner_vars, oversize_vars, cea_vars, ts_vars, live_vars, hls_vars, ud_vars, nal_vars, flush_vars>>

\* The packet loop ends with the last whole packet.
OptLoopEnd ==
    /\ opt_pc = "packets"
    /\ packet_idx = Len(opt_data) \div TS_PACKET_SIZE
    /\ opt_pc' = "remaining"
    /\ UNCHANGED <<opt_data, packet_idx, opt_parser, opt_captions, final_decoded>>
    /\ UNCHANGED <<pipeline_vars, scanner_vars, oversize_vars, cea_vars, ts_vars, live_vars, hls_vars, ud_vars, nal_vars, flush_vars>>

\* "Process any remaining video data", then Ok(captions).
OptRemaining ==
    /\ opt_pc = "remaining"
    /\ IF opt_parser.video_data_buffer # <<>>
       THEN OptExtend(opt_process_video_buffer_for_sei(opt_parser))
       ELSE UNCHANGED <<opt_parser, opt_captions, final_decoded>>
    /\ opt_pc' = "done"
    /\ UNCHANGED <<opt_data, packet_idx>>
    /\ UNCHANGED <<pipeline_vars, scanner_vars, oversize_vars, cea_vars, ts_vars, live_vars, hls_vars, ud_vars, nal_vars, flush_vars>>

NextOpt == OptPacket \/ OptLoopEnd \/ OptRemaining

InitOptAlone ==
    /\ InitOpt
    /\ IdlePipeline /\ IdleScanner /\ IdleOversize /\ IdleCea /\ IdleTs /\ IdleLive /\ IdleHls /\ IdleUd /\ IdleNal /\ IdleFlush

\* One call of OptimizedTsParser::parse_ts_file on a segment, a loop
\* iteration per step.
SpecOpt == InitOptAlone /\ [][NextOpt]_vars

\* C30: parse_ts_file of the optimized parser returns at most one caption
\* per payload_type-4 SEI message whose envelope validates: a NAL unit
\* decoded as the unterminated final NAL unit of the buffer is not decoded
\* again by a later call or by the trailing pass.
C30_AtMostOneCaptionPerMessage ==
    opt_pc = "done" => Len(opt_captions) <= Len(ValidCaptionMessages(opt_data))

====
